---- MODULE Spec2Model ----
(***************************************************************************)
(* Model of the chroma-key transparency pipeline of mcp-alphabanana        *)
(* (src/src/utils/post-processor.ts): postProcess, selectTransparentColor, *)
(* applyTransparency and their helpers.                                    *)
(*                                                                         *)
(* Numbers.  The code computes in IEEE doubles; the model computes the     *)
(* same expressions in exact arithmetic over the integers: a rational is   *)
(* a pair <<numerator, denominator>>, a comparison against a square root   *)
(* is made on the squares, and Math.round is floor(x + 1/2).  Products     *)
(* that would not fit 32 bits are compared by Euclid's algorithm           *)
(* (LeqFrac).                                                              *)
(*                                                                         *)
(* A raster is a sequence of pixels <<r, g, b, a>> in row-major order;     *)
(* pixel i (1-based) is the code's byte offset (i-1)*channels.             *)
(***************************************************************************)
EXTENDS Integers, Sequences, FiniteSets, TLC

\* ------------------------------------------------------------------------
\* Arithmetic helpers
\* ------------------------------------------------------------------------

Max2(a, b) == IF a >= b THEN a ELSE b

Min2(a, b) == IF a <= b THEN a ELSE b

Abs(a) == IF a < 0 THEN -a ELSE a

\* a value stored as computed
Unclamped(v) == v

\* Math.max(0, Math.min(255, v))
Clamp255(v) == Max2(0, Min2(255, v))

\* floor(p / q) for q > 0 and any integer p
FloorDiv(p, q) == IF p >= 0 THEN p \div q ELSE -((-p + q - 1) \div q)

\* Math.round(p / q) for q > 0: the nearest integer, halves going up
RoundDiv(p, q) == FloorDiv(2 * p + q, 2 * q)

\* a / c <= d / b for naturals a, d and positive c, b, without forming a*b
RECURSIVE LeqFrac(_, _, _, _)
LeqFrac(a, c, d, b) ==
  LET qa == a \div c
      qd == d \div b
      ra == a % c
      rd == d % b
  IN  IF qa < qd THEN TRUE
      ELSE IF qa > qd THEN FALSE
      ELSE IF ra = 0 THEN TRUE
      ELSE IF rd = 0 THEN FALSE
      ELSE LeqFrac(b, rd, c, ra)

\* a * b <= c * d for naturals
LeqProd(a, b, c, d) ==
  IF a = 0 \/ b = 0 THEN TRUE
  ELSE IF c = 0 \/ d = 0 THEN FALSE
  ELSE LeqFrac(a, c, d, b)

\* comparisons of non-negative rationals <<n, d>>, d > 0
RatLeq(p, q) == LeqProd(p[1], q[2], q[1], p[2])

RatLess(p, q) == ~RatLeq(q, p)

RatEq(p, q) == RatLeq(p, q) /\ RatLeq(q, p)

\* ------------------------------------------------------------------------
\* Colors
\* ------------------------------------------------------------------------

Rgb(p) == <<p[1], p[2], p[3]>>

\* dr*dr + dg*dg + db*db: the square of the code's Euclidean RGB distance
Dist2(p, k) ==
  (p[1] - k[1]) * (p[1] - k[1]) + (p[2] - k[2]) * (p[2] - k[2])
    + (p[3] - k[3]) * (p[3] - k[3])

\* rgbToHsv(r, g, b).h in degrees as a rational <<n, d>>; only the hue of
\* the result is ever read.  (x % 6 is the identity on the values of
\* (g - b) / delta, which lie in [-1, 1].)
rgbToHsv(r, g, b) ==
  LET max == Max2(r, Max2(g, b))
      min == Min2(r, Min2(g, b))
      delta == max - min
  IN  IF delta = 0 THEN <<0, 1>>
      ELSE IF max = r
        THEN <<60 * (g - b) + (IF g < b THEN 360 * delta ELSE 0), delta>>
      ELSE IF max = g
        THEN <<60 * (b - r) + 120 * delta, delta>>
      ELSE <<60 * (r - g) + 240 * delta, delta>>

\* Math.min(|a - b|, 360 - |a - b|) on rational hues
hueDistance(a, b) ==
  LET den == a[2] * b[2]
      diff == Abs(a[1] * b[2] - b[1] * a[2])
  IN  <<Min2(diff, 360 * den - diff), den>>

\* A hex color is the sequence of its hexadecimal digits (0..15), without
\* the leading '#'.  parseHexColor doubles the digits of a 3-digit color.
parseHexColor(hex) ==
  LET full == IF Len(hex) = 3
                THEN <<hex[1], hex[1], hex[2], hex[2], hex[3], hex[3]>>
                ELSE hex
  IN  <<full[1] * 16 + full[2], full[3] * 16 + full[4], full[5] * 16 + full[6]>>

\* rgbToHex: each channel clamped to 0..255 and written as two hex digits
rgbToHex(r, g, b) ==
  <<Clamp255(r) \div 16, Clamp255(r) % 16, Clamp255(g) \div 16,
    Clamp255(g) % 16, Clamp255(b) \div 16, Clamp255(b) % 16>>

MagentaHex == <<15, 15, 0, 0, 15, 15>>

\* A requested color is [tag |-> "null" | "auto" | "hex", digits |-> ...]
normalizeTransparentColor(color) ==
  IF color.tag = "null" \/ color.tag = "auto" THEN MagentaHex ELSE color.digits

\* ------------------------------------------------------------------------
\* 4.1 Key color selection
\* ------------------------------------------------------------------------

\* ((r >> 4) << 8) | ((g >> 4) << 4) | (b >> 4)
BinIndex(p) == (p[1] \div 16) * 256 + (p[2] \div 16) * 16 + (p[3] \div 16)

\* ((idx >> 8) & 0x0f) * 16 + 8, ((idx >> 4) & 0x0f) * 16 + 8, (idx & 0x0f) * 16 + 8
BinCenter(idx) ==
  <<((idx \div 256) % 16) * 16 + 8, ((idx \div 16) % 16) * 16 + 8,
    (idx % 16) * 16 + 8>>

\* binCounts[idx] after the counting loop
binCounts(pixels, idx) ==
  Cardinality({i \in 1..Len(pixels) : BinIndex(pixels[i]) = idx})

\* the ascending sequence of the members of a finite set of integers
RECURSIVE Ascending(_)
Ascending(S) ==
  IF S = {} THEN <<>>
  ELSE LET m == CHOOSE x \in S : \A y \in S : x <= y
       IN  <<m>> \o Ascending(S \ {m})

\* The bins the selection loop can stop at, in the loop's order.  The loop
\* visits idx = 0..4095 and skips a bin when count < minArea; minArea is
\* positive for an image with a pixel, so every empty bin is skipped.
OccupiedBins(pixels) == Ascending({BinIndex(pixels[i]) : i \in 1..Len(pixels)})

\* count < minArea, minArea a rational
BelowMinArea(count, minArea) == count * minArea[2] < minArea[1]

\* a selection loop that keeps the first of two bins at the same hue distance
HistogramStepFirstWins(pixels, idx, targetHue, hueTolerance, minArea, best) ==
  LET count == binCounts(pixels, idx)
      c == BinCenter(idx)
      distance == hueDistance(rgbToHsv(c[1], c[2], c[3]), targetHue)
  IN  IF BelowMinArea(count, minArea) THEN best
      ELSE IF RatLess(hueTolerance, distance) THEN best
      ELSE IF best.index < 0 \/ RatLess(distance, best.distance)
        THEN [index |-> idx, distance |-> distance, count |-> count]
      ELSE best

\* one iteration of the selection loop of pickHistogramColor for bin idx;
\* best is [index, distance, count], index = -1 standing for the initial
\* bestIndex = -1, bestDistance = Infinity
HistogramStep(pixels, idx, targetHue, hueTolerance, minArea, best) ==
  LET count == binCounts(pixels, idx)
      c == BinCenter(idx)
      distance == hueDistance(rgbToHsv(c[1], c[2], c[3]), targetHue)
  IN  IF BelowMinArea(count, minArea) THEN best
      ELSE IF RatLess(hueTolerance, distance) THEN best
      ELSE IF \/ best.index < 0
              \/ RatLess(distance, best.distance)
              \/ (RatEq(distance, best.distance) /\ count > best.count)
        THEN [index |-> idx, distance |-> distance, count |-> count]
      ELSE best

RECURSIVE HistogramScan(_, _, _, _, _, _, _)
HistogramScan(pixels, bins, k, targetHue, hueTolerance, minArea, best) ==
  IF k > Len(bins) THEN best
  ELSE HistogramScan(pixels, bins, k + 1, targetHue, hueTolerance, minArea,
         HistogramStep(pixels, bins[k], targetHue, hueTolerance, minArea, best))

NoColor == <<>>

\* pickHistogramColor: the center of the best bin, or NoColor for null
pickHistogramColor(pixels, targetHue, hueTolerance, minArea) ==
  LET best == HistogramScan(pixels, OccupiedBins(pixels), 1, targetHue,
                hueTolerance, minArea,
                [index |-> -1, distance |-> <<0, 1>>, count |-> 0])
  IN  IF best.index < 0 THEN NoColor ELSE BinCenter(best.index)

\* getCornerColors: top-left, top-right, bottom-left, bottom-right
getCornerColors(pixels, width, height) ==
  <<Rgb(pixels[1]), Rgb(pixels[(width - 1) + 1]),
    Rgb(pixels[(height - 1) * width + 1]),
    Rgb(pixels[(height - 1) * width + (width - 1) + 1])>>

\* a corner loop that compares with <=, so that the last nearest corner wins
CornerStepLastWins(corner, targetHue, best) ==
  LET distance == hueDistance(rgbToHsv(corner[1], corner[2], corner[3]), targetHue)
  IN  IF ~best.set \/ RatLeq(distance, best.distance)
        THEN [color |-> corner, distance |-> distance, set |-> TRUE]
        ELSE best

\* one iteration of the loop of pickCornerColor; best is [color, distance,
\* set], set = FALSE standing for bestDistance = Infinity
CornerStep(corner, targetHue, best) ==
  LET distance == hueDistance(rgbToHsv(corner[1], corner[2], corner[3]), targetHue)
  IN  IF ~best.set \/ RatLess(distance, best.distance)
        THEN [color |-> corner, distance |-> distance, set |-> TRUE]
        ELSE best

RECURSIVE CornerScan(_, _, _, _)
CornerScan(cornerColors, k, targetHue, best) ==
  IF k > Len(cornerColors) THEN best
  ELSE CornerScan(cornerColors, k + 1, targetHue,
         CornerStep(cornerColors[k], targetHue, best))

pickCornerColor(cornerColors, targetHue) ==
  CornerScan(cornerColors, 1, targetHue,
    [color |-> cornerColors[1], distance |-> <<0, 1>>, set |-> FALSE]).color

\* hueTolerance = (tolerance / 255) * 120
HueTolerance(tolerance) == <<120 * tolerance, 255>>

\* minArea = totalPixels * 0.05
MinArea(totalPixels) == <<5 * totalPixels, 100>>

\* a selection that falls back to the requested color instead of a corner
selectRequestedColor(pixels, width, height, requestedHex, tolerance) ==
  LET requested == parseHexColor(requestedHex)
      targetHue == rgbToHsv(requested[1], requested[2], requested[3])
      cornerColors == getCornerColors(pixels, width, height)
      histogramColor == pickHistogramColor(pixels, targetHue,
                          HueTolerance(tolerance), MinArea(width * height))
  IN  IF histogramColor # NoColor
        THEN [color |-> histogramColor, method |-> "histogram",
              cornerColors |-> cornerColors]
        ELSE [color |-> requested, method |-> "corner", cornerColors |-> cornerColors]

\* selectTransparentColor on the raw RGBA data of the image
selectTransparentColor(pixels, width, height, requestedHex, tolerance) ==
  LET requested == parseHexColor(requestedHex)
      targetHue == rgbToHsv(requested[1], requested[2], requested[3])
      cornerColors == getCornerColors(pixels, width, height)
      histogramColor == pickHistogramColor(pixels, targetHue,
                          HueTolerance(tolerance), MinArea(width * height))
  IN  IF histogramColor # NoColor
        THEN [color |-> histogramColor, method |-> "histogram",
              cornerColors |-> cornerColors]
        ELSE [color |-> pickCornerColor(cornerColors, targetHue),
              method |-> "corner", cornerColors |-> cornerColors]

\* ------------------------------------------------------------------------
\* 4.2 Keying sweep with the primary despill
\* ------------------------------------------------------------------------

\* a classification that tests the interval of blue before that of magenta
DespillKindBlueFirst(keyHue) ==
  IF keyHue[1] >= 210 * keyHue[2] /\ keyHue[1] <= 270 * keyHue[2] THEN "blue"
  ELSE IF keyHue[1] >= 270 * keyHue[2] \/ keyHue[1] <= 30 * keyHue[2] THEN "magenta"
  ELSE IF keyHue[1] >= 90 * keyHue[2] /\ keyHue[1] <= 150 * keyHue[2] THEN "green"
  ELSE "generic"

\* despillKind from the hue of the key color
DespillKindOf(keyHue) ==
  IF keyHue[1] >= 270 * keyHue[2] \/ keyHue[1] <= 30 * keyHue[2] THEN "magenta"
  ELSE IF keyHue[1] >= 90 * keyHue[2] /\ keyHue[1] <= 150 * keyHue[2] THEN "green"
  ELSE IF keyHue[1] >= 210 * keyHue[2] /\ keyHue[1] <= 270 * keyHue[2] THEN "blue"
  ELSE "generic"

\* rgbDist <= rgbThreshold, rgbThreshold = tolerance * sqrt(2); n = rgbDist^2
WithinRgbThreshold(n, tolerance) == n <= 2 * tolerance * tolerance

\* rgbDist <= rgbDespillThreshold = rgbThreshold * 1.8
WithinDespillThreshold(n, tolerance) == 100 * n <= 648 * tolerance * tolerance

\* v + spillStrength * qn / qd + 1/2 >= k, where
\*   spillStrength = 1 - (rgbDist - rgbThreshold) / (rgbDespillThreshold - rgbThreshold)
\*                 = (9 - 5 * sqrt(n / (2 * tolerance^2))) / 4,   n = rgbDist^2,
\* decided on the squares
SpillReaches(k, v, qn, qd, n, tolerance) ==
  LET R == 2 * qd * (2 * k - 2 * v - 1)
      tt == 2 * tolerance * tolerance
  IN  IF qn = 0 THEN 0 >= R
      ELSE IF qn > 0
        THEN 9 * qn - R >= 0
             /\ LeqProd(25 * qn * qn, n, (9 * qn - R) * (9 * qn - R), tt)
      ELSE 9 * (-qn) + R <= 0
           \/ LeqProd((9 * (-qn) + R) * (9 * (-qn) + R), tt, 25 * qn * qn, n)

\* Math.round(v + spillStrength * qn / qd) for a pixel of the despill zone
SpillRound(v, qn, qd, n, tolerance) ==
  LET lo == Min2(v, v + FloorDiv(qn, qd)) - 1
      hi == Max2(v, v - FloorDiv(-qn, qd)) + 1
  IN  CHOOSE k \in lo..hi :
        /\ SpillReaches(k, v, qn, qd, n, tolerance)
        /\ ~SpillReaches(k + 1, v, qn, qd, n, tolerance)

\* the switch (despillKind) of the keying loop: the corrected <<nr, ng, nb>>
PrimaryDespill(r, g, b, n, tolerance, kind) ==
  IF kind = "magenta"
    THEN <<SpillRound(r, -Max2(0, r - g), 1, n, tolerance), g,
           SpillRound(b, -Max2(0, b - g), 1, n, tolerance)>>
  ELSE IF kind = "green"
    THEN LET ng == SpillRound(g, -Max2(0, g - Max2(r, b)), 1, n, tolerance)
             greenExcess == g - Max2(r, b)
         IN  IF g > r /\ g > b /\ greenExcess > 10
               THEN <<Max2(0, SpillRound(r, -3 * greenExcess, 10, n, tolerance)), ng,
                      Max2(0, SpillRound(b, -3 * greenExcess, 10, n, tolerance))>>
               ELSE <<r, ng, b>>
  ELSE IF kind = "blue"
    THEN <<r, g, SpillRound(b, -Max2(0, b - Max2(r, g)), 1, n, tolerance)>>
  ELSE LET grey == RoundDiv(r + g + b, 3)
       IN  <<SpillRound(r, grey - r, 2, n, tolerance),
             SpillRound(g, grey - g, 2, n, tolerance),
             SpillRound(b, grey - b, 2, n, tolerance)>>

\* a keying loop body that clears byte i + 2 instead of byte i + 3
KeyPixelWrongChannel(p, key, tolerance, kind) ==
  LET n == Dist2(p, key)
  IN  IF WithinRgbThreshold(n, tolerance) THEN <<p[1], p[2], 0, p[4]>>
      ELSE IF WithinDespillThreshold(n, tolerance)
        THEN LET c == PrimaryDespill(p[1], p[2], p[3], n, tolerance, kind)
             IN  <<Clamp255(c[1]), Clamp255(c[2]), Clamp255(c[3]), p[4]>>
      ELSE p

\* a keying loop body that also blanks the color of a pixel it makes transparent
KeyPixelBlanksColor(p, key, tolerance, kind) ==
  LET n == Dist2(p, key)
  IN  IF WithinRgbThreshold(n, tolerance) THEN <<0, 0, 0, 0>>
      ELSE IF WithinDespillThreshold(n, tolerance)
        THEN LET c == PrimaryDespill(p[1], p[2], p[3], n, tolerance, kind)
             IN  <<Clamp255(c[1]), Clamp255(c[2]), Clamp255(c[3]), p[4]>>
      ELSE p

\* the body of the keying loop for one pixel
KeyPixel(p, key, tolerance, kind) ==
  LET n == Dist2(p, key)
  IN  IF WithinRgbThreshold(n, tolerance) THEN <<p[1], p[2], p[3], 0>>
      ELSE IF WithinDespillThreshold(n, tolerance)
        THEN LET c == PrimaryDespill(p[1], p[2], p[3], n, tolerance, kind)
             IN  <<Clamp255(c[1]), Clamp255(c[2]), Clamp255(c[3]), p[4]>>
      ELSE p

\* the keying loop: every pixel is rewritten from its own bytes only
KeyingSweep(pixels, key, tolerance, kind) ==
  [i \in 1..Len(pixels) |-> KeyPixel(pixels[i], key, tolerance, kind)]

\* ------------------------------------------------------------------------
\* 4.3 Fringe mode and the hd boundary clear
\* ------------------------------------------------------------------------

\* a resolution that reads the width only and takes 128 for large
resolveFringeModeByWidth(mode, width, height) ==
  IF mode = "crisp" \/ mode = "hd" THEN mode
  ELSE IF width >= 128 THEN "hd" ELSE "crisp"

resolveFringeMode(mode, width, height) ==
  IF mode = "crisp" \/ mode = "hd" THEN mode
  ELSE IF Max2(width, height) > 128 THEN "hd" ELSE "crisp"

\* coordinates of pixel i and the pixel at (x, y)
XOf(i, width) == (i - 1) % width

YOf(i, width) == (i - 1) \div width

At(x, y, width) == y * width + x + 1

InImage(x, y, width, height) == x >= 0 /\ x < width /\ y >= 0 /\ y < height

Offsets8 == {d \in (-1..1) \X (-1..1) : d # <<0, 0>>}

\* hasTransparentNeighbor of the hd boundary clear: reads alphaSnapshot
hasTransparentNeighbor(alphaSnapshot, x, y, width, height) ==
  \E d \in Offsets8 :
    /\ InImage(x + d[1], y + d[2], width, height)
    /\ alphaSnapshot[At(x + d[1], y + d[2], width)] = 0

\* the clearing loop from pixel i on: the pixel's own alpha is read from the
\* live buffer, the neighbors' from the snapshot
RECURSIVE HdClearFrom(_, _, _, _, _)
HdClearFrom(rgbaPixels, alphaSnapshot, i, width, height) ==
  IF i > Len(rgbaPixels) THEN rgbaPixels
  ELSE HdClearFrom(
         IF rgbaPixels[i][4] = 0 THEN rgbaPixels
         ELSE IF ~hasTransparentNeighbor(alphaSnapshot, XOf(i, width),
                    YOf(i, width), width, height) THEN rgbaPixels
         ELSE [rgbaPixels EXCEPT ![i][4] = 0],
         alphaSnapshot, i + 1, width, height)

\* a clearing loop that reads the neighbors' alpha from the buffer it writes
RECURSIVE HdClearLiveFrom(_, _, _, _)
HdClearLiveFrom(rgbaPixels, i, width, height) ==
  IF i > Len(rgbaPixels) THEN rgbaPixels
  ELSE HdClearLiveFrom(
         IF rgbaPixels[i][4] = 0 THEN rgbaPixels
         ELSE IF ~hasTransparentNeighbor([k \in 1..Len(rgbaPixels) |-> rgbaPixels[k][4]],
                    XOf(i, width), YOf(i, width), width, height) THEN rgbaPixels
         ELSE [rgbaPixels EXCEPT ![i][4] = 0],
         i + 1, width, height)

HdBoundaryClearCascading(pixels, width, height) == HdClearLiveFrom(pixels, 1, width, height)

HdBoundaryClear(pixels, width, height) ==
  HdClearFrom(pixels, [i \in 1..Len(pixels) |-> pixels[i][4]], 1, width, height)

\* ------------------------------------------------------------------------
\* 4.4 Boundary despill (post-pass A)
\* ------------------------------------------------------------------------

\* a strength of 1.0 in every mode
ForceBaseOfDefault(mode) == <<10, 10>>

\* no median blend in any mode
MedianBlendOff(mode) == <<0, 100>>

\* forceBase and medianBlend as rationals
ForceBase(mode) ==
  IF mode = "crisp" THEN <<4, 10>> ELSE IF mode = "hd" THEN <<11, 10>> ELSE <<10, 10>>

MedianBlend(mode) ==
  IF mode = "crisp" THEN <<0, 100>> ELSE IF mode = "hd" THEN <<20, 100>> ELSE <<15, 100>>

\* the neighbours array of post-pass A, in its order
Neighbours8(x, y) ==
  <<<<x - 1, y - 1>>, <<x, y - 1>>, <<x + 1, y - 1>>, <<x - 1, y>>, <<x + 1, y>>,
    <<x - 1, y + 1>>, <<x, y + 1>>, <<x + 1, y + 1>>>>

hasTransparentNeighbour(rgbaPixels, x, y, width, height) ==
  \E k \in 1..8 :
    LET nb == Neighbours8(x, y)[k]
    IN  /\ InImage(nb[1], nb[2], width, height)
        /\ rgbaPixels[At(nb[1], nb[2], width)][4] = 0

\* the nine cells of the 3x3 window with coordinates clamped to the image
WindowCellsClamped(x, y, width, height) ==
  [k \in 1..9 |->
    At(Max2(0, Min2(width - 1, x + ((k - 1) % 3) - 1)),
       Max2(0, Min2(height - 1, y + ((k - 1) \div 3) - 1)), width)]

\* the cells visited by the median loops: yy from max(0, y-1) to
\* min(height-1, y+1), xx from max(0, x-1) to min(width-1, x+1), row by row
WindowCells(x, y, width, height) ==
  LET x0 == Max2(0, x - 1)
      x1 == Min2(width - 1, x + 1)
      y0 == Max2(0, y - 1)
      y1 == Min2(height - 1, y + 1)
      cols == x1 - x0 + 1
  IN  [k \in 1..(cols * (y1 - y0 + 1)) |->
        At(x0 + ((k - 1) % cols), y0 + ((k - 1) \div cols), width)]

\* arr.sort((a, b) => a - b)
RECURSIVE InsertSorted(_, _)
InsertSorted(s, v) ==
  IF s = <<>> THEN <<v>>
  ELSE IF v < Head(s) THEN <<v>> \o s
  ELSE <<Head(s)>> \o InsertSorted(Tail(s), v)

RECURSIVE SortAsc(_)
SortAsc(s) == IF s = <<>> THEN <<>> ELSE InsertSorted(SortAsc(Tail(s)), Head(s))

\* median(arr) = sorted[Math.floor(arr.length / 2)]
median(arr) == SortAsc(arr)[(Len(arr) \div 2) + 1]

\* the local medians <<medR, medG, medB>> of pixel (x, y)
WindowMedian(rgbaPixels, x, y, width, height) ==
  LET cells == WindowCells(x, y, width, height)
  IN  <<median([k \in 1..Len(cells) |-> rgbaPixels[cells[k]][1]]),
        median([k \in 1..Len(cells) |-> rgbaPixels[cells[k]][2]]),
        median([k \in 1..Len(cells) |-> rgbaPixels[cells[k]][3]])>>

\* Math.round(v * keepRatio + med * medianBlend) when medianBlend > 0
BlendChannel(v, med, blend) ==
  IF blend[1] > 0
    THEN RoundDiv(v * (blend[2] - blend[1]) + med * blend[1], blend[2])
    ELSE v

BlendColor(c, med, blend) ==
  <<BlendChannel(c[1], med[1], blend), BlendChannel(c[2], med[2], blend),
    BlendChannel(c[3], med[3], blend)>>

\* The double 1.1 lies just above 11/10.  Where 11/10 * e is an exact half,
\* the double product forceStrength * e is either that half or, for the e
\* below, the next double above it; HalfBinade(e) is then the power of two
\* at or below the product (0 for every other e).
HalfBinade(e) ==
  IF e = 25 THEN 16
  ELSE IF e \in {45, 55} THEN 32
  ELSE IF e \in {85, 95, 105, 115} THEN 64
  ELSE IF e \in {165, 175, 185, 195, 205, 215, 225} THEN 128
  ELSE 0

\* 1 when the double v - 1.1 * e * (cn / cd) lies just below an exact half of
\* the rationals, so that Math.round gives one less than on the rationals:
\* the product lies above the half and the difference is small enough to
\* keep the excess (below twice the binade of the product)
HalfDrop(v, e, force, cn, cd) ==
  IF force # <<11, 10>> THEN 0
  ELSE IF cn = cd
    THEN IF HalfBinade(e) > 0 /\ 10 * v - 11 * e < 20 * HalfBinade(e) THEN 1 ELSE 0
  ELSE IF <<cn, cd>> = <<6, 10>>
    THEN IF e = 175 /\ v <= 243 THEN 1 ELSE 0
  ELSE 0

\* Math.max(0, Math.min(255, Math.round(v - force * e * (cn / cd))))
ForceSub(v, e, force, cn, cd) ==
  Clamp255(v + RoundDiv(-(force[1] * e * cn), force[2] * cd)
             - HalfDrop(v, e, force, cn, cd))

\* the switch (despillKind) of post-pass A: the color written for a boundary
\* pixel of color <<r, g, b>> with local medians med
BoundaryColor(r, g, b, med, kind, mode) ==
  LET force == ForceBase(mode)
      blend == MedianBlend(mode)
  IN  IF kind = "magenta"
        THEN BlendColor(<<ForceSub(r, Max2(0, r - med[2]), force, 1, 1), g,
                          ForceSub(b, Max2(0, b - med[2]), force, 1, 1)>>, med, blend)
      ELSE IF kind = "green"
        THEN LET gExcess == Max2(0, g - Max2(r, b))
                 ng == ForceSub(g, gExcess, force, 1, 1)
             IN  BlendColor(
                   IF gExcess > 8
                     THEN <<ForceSub(r, gExcess, force, 35, 100), ng,
                            ForceSub(b, gExcess, force, 35, 100)>>
                     ELSE <<r, ng, b>>, med, blend)
      ELSE IF kind = "blue"
        THEN BlendColor(<<r, g, ForceSub(b, Max2(0, b - Max2(med[1], med[2])),
                                     force, 1, 1)>>, med, blend)
      ELSE <<ForceSub(r, r - med[1], force, 6, 10),
             ForceSub(g, g - med[2], force, 6, 10),
             ForceSub(b, b - med[3], force, 6, 10)>>

\* the body of the loops of post-pass A for pixel i: the neighbors' alpha,
\* the window and the pixel's own color are read from src
DespillBoundaryPixel(rgbaPixels, src, i, width, height, kind, mode) ==
  LET x == XOf(i, width)
      y == YOf(i, width)
  IN  IF src[i][4] = 0 THEN rgbaPixels
      ELSE IF ~hasTransparentNeighbour(src, x, y, width, height) THEN rgbaPixels
      ELSE LET c == BoundaryColor(src[i][1], src[i][2], src[i][3],
                      WindowMedian(src, x, y, width, height), kind, mode)
           IN  [rgbaPixels EXCEPT ![i] = <<c[1], c[2], c[3], src[i][4]>>]

\* post-pass A from pixel i on: the code reads and writes the one buffer
\* rgbaPixels, so pixel i sees what the pass wrote for the pixels before it
RECURSIVE BoundaryDespillFrom(_, _, _, _, _, _)
BoundaryDespillFrom(rgbaPixels, i, width, height, kind, mode) ==
  IF i > Len(rgbaPixels) THEN rgbaPixels
  ELSE BoundaryDespillFrom(
         DespillBoundaryPixel(rgbaPixels, rgbaPixels, i, width, height, kind, mode),
         i + 1, width, height, kind, mode)

BoundaryDespillPass(pixels, width, height, kind, mode) ==
  BoundaryDespillFrom(pixels, 1, width, height, kind, mode)

\* a rebuilt buffer that is opaque everywhere
InterleaveOpaque(pixels) ==
  [i \in 1..Len(pixels) |-> <<pixels[i][1], pixels[i][2], pixels[i][3], 255>>]

\* the RGBA buffer rebuilt between the clear and post-pass A: the RGB bytes
\* of removeAlpha() interleaved with the bytes of extractChannel(3)
Interleave(pixels) ==
  LET rgb == [i \in 1..Len(pixels) |-> Rgb(pixels[i])]
      refinedAlpha == [i \in 1..Len(pixels) |-> pixels[i][4]]
  IN  [i \in 1..Len(pixels) |-> <<rgb[i][1], rgb[i][2], rgb[i][3], refinedAlpha[i]>>]

\* ------------------------------------------------------------------------
\* 4.5 Alpha-weighted despill (post-pass B)
\* ------------------------------------------------------------------------

\* alphaCoef as a rational; alphaPower is 2.0 in hd mode and 1.8 otherwise
AlphaCoef(mode) ==
  IF mode = "crisp" THEN <<0, 10>> ELSE IF mode = "hd" THEN <<14, 10>> ELSE <<12, 10>>

\* spillStrength = Math.pow(1 - alpha / 255, alphaPower) * alphaCoef as a
\* rational, for the two modes resolveFringeMode returns: 0 in crisp mode
\* (alphaCoef = 0), and (255 - alpha)^2 / 255^2 * 1.4 in hd mode
AlphaStrength(alpha, mode) ==
  IF AlphaCoef(mode)[1] = 0 THEN <<0, 1>>
  ELSE <<7 * (255 - alpha) * (255 - alpha), 325125>>

\* Math.max(0, Math.min(255, Math.round(v - s * e * (cn / cd))))
StrengthSub(v, e, s, cn, cd) ==
  Clamp255(v + RoundDiv(-(s[1] * cn * e), s[2] * cd))

\* a post-pass B with the constants of the keying loop: 10, 0.3 and 0.5
AlphaDespillPixelAsPrimary(p, kind, mode) ==
  LET r == p[1]
      g == p[2]
      b == p[3]
      s == AlphaStrength(p[4], mode)
  IN  IF p[4] = 0 \/ p[4] = 255 THEN p
      ELSE IF kind = "magenta"
        THEN <<StrengthSub(r, Max2(0, r - g), s, 1, 1), g,
               StrengthSub(b, Max2(0, b - g), s, 1, 1), p[4]>>
      ELSE IF kind = "green"
        THEN LET gExcess2 == Max2(0, g - Max2(r, b))
                 ng == StrengthSub(g, gExcess2, s, 1, 1)
             IN  IF gExcess2 > 10
                   THEN <<StrengthSub(r, gExcess2, s, 3, 10), ng,
                          StrengthSub(b, gExcess2, s, 3, 10), p[4]>>
                   ELSE <<r, ng, b, p[4]>>
      ELSE IF kind = "blue"
        THEN <<r, g, StrengthSub(b, Max2(0, b - Max2(r, g)), s, 1, 1), p[4]>>
      ELSE LET grey == RoundDiv(r + g + b, 3)
           IN  <<StrengthSub(r, r - grey, s, 1, 2), StrengthSub(g, g - grey, s, 1, 2),
                 StrengthSub(b, b - grey, s, 1, 2), p[4]>>

\* a pass that skips the transparent pixels only, and corrects an opaque pixel
\* with the strength alphaCoef
AlphaDespillPixelOpaqueToo(p, kind, mode) ==
  LET r == p[1]
      g == p[2]
      b == p[3]
      s == IF p[4] = 255 THEN AlphaCoef(mode) ELSE AlphaStrength(p[4], mode)
  IN  IF p[4] = 0 THEN p
      ELSE IF kind = "magenta"
        THEN <<StrengthSub(r, Max2(0, r - g), s, 1, 1), g,
               StrengthSub(b, Max2(0, b - g), s, 1, 1), p[4]>>
      ELSE IF kind = "green"
        THEN LET gExcess2 == Max2(0, g - Max2(r, b))
                 ng == StrengthSub(g, gExcess2, s, 1, 1)
             IN  IF gExcess2 > 8
                   THEN <<StrengthSub(r, gExcess2, s, 7, 20), ng,
                          StrengthSub(b, gExcess2, s, 7, 20), p[4]>>
                   ELSE <<r, ng, b, p[4]>>
      ELSE IF kind = "blue"
        THEN <<r, g, StrengthSub(b, Max2(0, b - Max2(r, g)), s, 1, 1), p[4]>>
      ELSE LET grey == RoundDiv(r + g + b, 3)
           IN  <<StrengthSub(r, r - grey, s, 3, 5), StrengthSub(g, g - grey, s, 3, 5),
                 StrengthSub(b, b - grey, s, 3, 5), p[4]>>

\* the body of post-pass B for one pixel
AlphaDespillPixel(p, kind, mode) ==
  LET r == p[1]
      g == p[2]
      b == p[3]
      s == AlphaStrength(p[4], mode)
  IN  IF p[4] = 0 \/ p[4] = 255 THEN p
      ELSE IF kind = "magenta"
        THEN <<StrengthSub(r, Max2(0, r - g), s, 1, 1), g,
               StrengthSub(b, Max2(0, b - g), s, 1, 1), p[4]>>
      ELSE IF kind = "green"
        THEN LET gExcess2 == Max2(0, g - Max2(r, b))
                 ng == StrengthSub(g, gExcess2, s, 1, 1)
             IN  IF gExcess2 > 8
                   THEN <<StrengthSub(r, gExcess2, s, 7, 20), ng,
                          StrengthSub(b, gExcess2, s, 7, 20), p[4]>>
                   ELSE <<r, ng, b, p[4]>>
      ELSE IF kind = "blue"
        THEN <<r, g, StrengthSub(b, Max2(0, b - Max2(r, g)), s, 1, 1), p[4]>>
      ELSE LET grey == RoundDiv(r + g + b, 3)
           IN  <<StrengthSub(r, r - grey, s, 3, 5), StrengthSub(g, g - grey, s, 3, 5),
                 StrengthSub(b, b - grey, s, 3, 5), p[4]>>

AlphaWeightedDespillPass(pixels, kind, mode) ==
  [i \in 1..Len(pixels) |-> AlphaDespillPixel(pixels[i], kind, mode)]

\* ------------------------------------------------------------------------
\* 4.6 Isolated pixel cleanup (post-pass C)
\* ------------------------------------------------------------------------

\* the tolerances at which the double rgbThreshold * 3.0 is below the real
\* 3 * sqrt(2) * tolerance, so that a distance of exactly that is not within it
HdCleanupRoundsDown(tolerance) == tolerance \in {23, 46, 51, 92, 102, 184, 204}

\* a cleanup threshold of 2.5 times rgbThreshold in crisp mode
WithinCleanupThresholdWide(n, tolerance, mode) ==
  IF mode = "hd"
    THEN \/ n < 18 * tolerance * tolerance
         \/ n = 18 * tolerance * tolerance /\ ~HdCleanupRoundsDown(tolerance)
    ELSE 4 * n <= 50 * tolerance * tolerance

\* cDist <= cleanupThreshold = rgbThreshold * (isHd ? 3.0 : 2.0); n = cDist^2
WithinCleanupThreshold(n, tolerance, mode) ==
  IF mode = "hd"
    THEN \/ n < 18 * tolerance * tolerance
         \/ n = 18 * tolerance * tolerance /\ ~HdCleanupRoundsDown(tolerance)
    ELSE n <= 8 * tolerance * tolerance

\* a count of the opaque neighbors in place of the transparent ones
opaqueCount(snapshot, x, y, width, height) ==
  Cardinality({d \in Offsets8 :
    /\ InImage(x + d[1], y + d[2], width, height)
    /\ snapshot[At(x + d[1], y + d[2], width)][4] # 0})

\* transCount of pixel (x, y): out-of-image neighbors count as transparent
transCount(snapshot, x, y, width, height) ==
  Cardinality({d \in Offsets8 :
    \/ ~InImage(x + d[1], y + d[2], width, height)
    \/ snapshot[At(x + d[1], y + d[2], width)][4] = 0})

\* the cleanup loop from pixel i on: reads snapshot, writes rgbaPixels
RECURSIVE CleanupFrom(_, _, _, _, _, _, _, _)
CleanupFrom(rgbaPixels, snapshot, i, width, height, key, tolerance, mode) ==
  IF i > Len(rgbaPixels) THEN rgbaPixels
  ELSE CleanupFrom(
         IF snapshot[i][4] = 0 THEN rgbaPixels
         ELSE IF /\ transCount(snapshot, XOf(i, width), YOf(i, width), width, height) >= 6
                 /\ WithinCleanupThreshold(Dist2(snapshot[i], key), tolerance, mode)
           THEN [rgbaPixels EXCEPT ![i][4] = 0]
         ELSE rgbaPixels,
         snapshot, i + 1, width, height, key, tolerance, mode)

\* a cleanup loop that reads the neighbors' alpha from the buffer it writes
RECURSIVE CleanupLiveFrom(_, _, _, _, _, _, _)
CleanupLiveFrom(rgbaPixels, i, width, height, key, tolerance, mode) ==
  IF i > Len(rgbaPixels) THEN rgbaPixels
  ELSE CleanupLiveFrom(
         IF rgbaPixels[i][4] = 0 THEN rgbaPixels
         ELSE IF /\ transCount(rgbaPixels, XOf(i, width), YOf(i, width), width, height) >= 6
                 /\ WithinCleanupThreshold(Dist2(rgbaPixels[i], key), tolerance, mode)
           THEN [rgbaPixels EXCEPT ![i][4] = 0]
         ELSE rgbaPixels,
         i + 1, width, height, key, tolerance, mode)

SpeckleCleanupCascading(pixels, width, height, key, tolerance, mode) ==
  CleanupLiveFrom(pixels, 1, width, height, key, tolerance, mode)

SpeckleCleanup(pixels, width, height, key, tolerance, mode) ==
  CleanupFrom(pixels, pixels, 1, width, height, key, tolerance, mode)

\* ------------------------------------------------------------------------
\* postProcess as a state machine
\* ------------------------------------------------------------------------

VARIABLES
  inputBuffer,   \* the decoded input: [width, height, channels, data]
  options,       \* PostProcessOptions
  pc,            \* position in postProcess / applyTransparency
  pixels,        \* the raster being processed (RGBA)
  debugInfo,     \* PostProcessDebugInfo: the key color selection
  despillKind,   \* despillKind of applyTransparency
  resolvedMode,  \* resolvedMode of applyTransparency
  stageInput,    \* history: the raster at the start of the last stage run
  stages,        \* history: the stages run so far, in order
  output,        \* the resize and encode requests handed to sharp
  args,          \* generate_image: the arguments of the call
  env,           \* generate_image: process.env
  epc,           \* generate_image: position in execute
  geminiRequest, \* generate_image: what generateWithGemini sent to the API
  rawImageBuffer,\* generate_image: what generateWithGemini returned
  files,         \* the file system: the files by path
  log,           \* generate_image: the warnings and errors logged so far
  reply          \* generate_image: what execute returned to the MCP client

\* the state of a generate_image call
call == <<args, env, epc, geminiRequest, rawImageBuffer, files, log, reply>>

vars == <<inputBuffer, options, pc, pixels, debugInfo, despillKind, resolvedMode,
          stageInput, stages, output, call>>

\* .ensureAlpha().raw(): a 3-channel pixel gets alpha 255
ensureAlpha(image) ==
  [i \in 1..Len(image.data) |->
    IF image.channels = 3
      THEN <<image.data[i][1], image.data[i][2], image.data[i][3], 255>>
      ELSE image.data[i]]

\* options.transparentColor && (format === 'png' || format === 'webp')
TransparencyEnabled ==
  /\ options.transparentColor.tag # "null"
  /\ options.format \in {"png", "webp"}

NoDebugInfo ==
  [selectedColor |-> <<>>, selectionMethod |-> "none", requestedColor |-> <<>>,
   cornerColors |-> <<>>]

NoOutput == [resized |-> FALSE, encoded |-> "none"]

\* debugInfo.selectedColor, .selectionMethod, .requestedColor, .cornerColors
DebugInfoOf(selection, requestedColor) ==
  [selectedColor |-> rgbToHex(selection.color[1], selection.color[2],
                              selection.color[3]),
   selectionMethod |-> selection.method,
   requestedColor |-> requestedColor,
   cornerColors |-> [k \in 1..4 |->
      rgbToHex(selection.cornerColors[k][1], selection.cornerColors[k][2],
               selection.cornerColors[k][3])]]

\* postProcess, step 1, first half: selectTransparentColor and debugInfo
SelectKeyColor ==
  /\ pc = "start"
  /\ TransparencyEnabled
  /\ LET requestedColor == normalizeTransparentColor(options.transparentColor)
     IN  debugInfo' = DebugInfoOf(
           selectTransparentColor(ensureAlpha(inputBuffer), inputBuffer.width,
             inputBuffer.height, requestedColor, options.colorTolerance),
           requestedColor)
  /\ pc' = "selected"
  /\ stages' = Append(stages, "select")
  /\ UNCHANGED call
  /\ UNCHANGED <<inputBuffer, options, pixels, despillKind, resolvedMode,
                 stageInput, output>>

\* postProcess without transparency: straight to the resize
SkipTransparency ==
  /\ pc = "start"
  /\ ~TransparencyEnabled
  /\ pc' = "transparent"
  /\ UNCHANGED call
  /\ UNCHANGED <<inputBuffer, options, pixels, debugInfo, despillKind,
                 resolvedMode, stageInput, stages, output>>

\* the key color applyTransparency works with: parseHexColor(hexColor)
KeyColor == parseHexColor(debugInfo.selectedColor)

\* applyTransparency up to the end of the keying loop
KeyAndDespill ==
  /\ pc = "selected"
  /\ LET kind == DespillKindOf(rgbToHsv(KeyColor[1], KeyColor[2], KeyColor[3]))
     IN  /\ despillKind' = kind
         /\ pixels' = KeyingSweep(ensureAlpha(inputBuffer), KeyColor,
                        options.colorTolerance, kind)
  /\ stageInput' = ensureAlpha(inputBuffer)
  /\ pc' = "keyed"
  /\ stages' = Append(stages, "key")
  /\ UNCHANGED call
  /\ UNCHANGED <<inputBuffer, options, debugInfo, resolvedMode, output>>

ResolveMode ==
  /\ pc = "keyed"
  /\ resolvedMode' = resolveFringeMode(options.fringeMode, options.width,
                                       options.height)
  /\ pc' = "resolved"
  /\ stages' = Append(stages, "resolve")
  /\ UNCHANGED call
  /\ UNCHANGED <<inputBuffer, options, pixels, debugInfo, despillKind,
                 stageInput, output>>

\* the boundary clear without the test of forceEdgeClear
HdClearUnguarded ==
  /\ pc = "resolved"
  /\ pixels' = HdBoundaryClear(pixels, inputBuffer.width, inputBuffer.height)
  /\ stageInput' = pixels
  /\ pc' = "cleared"
  /\ stages' = Append(stages, "hdclear")
  /\ UNCHANGED call
  /\ UNCHANGED <<inputBuffer, options, debugInfo, despillKind, resolvedMode, output>>

\* if (forceEdgeClear) { ... }
HdClear ==
  /\ pc = "resolved"
  /\ resolvedMode = "hd"
  /\ pixels' = HdBoundaryClear(pixels, inputBuffer.width, inputBuffer.height)
  /\ stageInput' = pixels
  /\ pc' = "cleared"
  /\ stages' = Append(stages, "hdclear")
  /\ UNCHANGED call
  /\ UNCHANGED <<inputBuffer, options, debugInfo, despillKind, resolvedMode, output>>

BoundaryDespill ==
  /\ \/ pc = "cleared"
     \/ pc = "resolved" /\ resolvedMode # "hd"
  /\ pixels' = BoundaryDespillPass(Interleave(pixels), inputBuffer.width,
                 inputBuffer.height, despillKind, resolvedMode)
  /\ stageInput' = pixels
  /\ pc' = "despilledA"
  /\ stages' = Append(stages, "boundary")
  /\ UNCHANGED call
  /\ UNCHANGED <<inputBuffer, options, debugInfo, despillKind, resolvedMode, output>>

AlphaDespill ==
  /\ pc = "despilledA"
  /\ pixels' = AlphaWeightedDespillPass(pixels, despillKind, resolvedMode)
  /\ stageInput' = pixels
  /\ pc' = "despilledB"
  /\ stages' = Append(stages, "alpha")
  /\ UNCHANGED call
  /\ UNCHANGED <<inputBuffer, options, debugInfo, despillKind, resolvedMode, output>>

Speckle ==
  /\ pc = "despilledB"
  /\ pixels' = SpeckleCleanup(pixels, inputBuffer.width, inputBuffer.height,
                 KeyColor, options.colorTolerance, resolvedMode)
  /\ stageInput' = pixels
  /\ pc' = "transparent"
  /\ stages' = Append(stages, "speckle")
  /\ UNCHANGED call
  /\ UNCHANGED <<inputBuffer, options, debugInfo, despillKind, resolvedMode, output>>

\* postProcess, step 2: applyResize(image, width, height, ...)
Resize ==
  /\ pc = "transparent"
  /\ output' = [output EXCEPT !.resized = TRUE]
  /\ pc' = "resized"
  /\ stages' = Append(stages, "resize")
  /\ UNCHANGED call
  /\ UNCHANGED <<inputBuffer, options, pixels, debugInfo, despillKind,
                 resolvedMode, stageInput>>

\* postProcess, step 3: png / webp / jpeg encoder
Encode ==
  /\ pc = "resized"
  /\ output' = [output EXCEPT !.encoded =
                  IF options.format = "png" THEN "png"
                  ELSE IF options.format = "webp" THEN "webp" ELSE "jpeg"]
  /\ pc' = "done"
  /\ stages' = Append(stages, "encode")
  /\ UNCHANGED call
  /\ UNCHANGED <<inputBuffer, options, pixels, debugInfo, despillKind,
                 resolvedMode, stageInput>>

\* ------------------------------------------------------------------------
\* Inputs
\* ------------------------------------------------------------------------

\* the largest pixel count of the exhaustively enumerated rasters
MaxPixels == 3

Magenta == <<255, 0, 255>>
MagentaBin == <<248, 8, 248>>
Pink60 == <<255, 60, 255>>
Red == <<255, 0, 0>>
Cyan == <<0, 255, 255>>
Blue == <<0, 0, 255>>
Yellow == <<255, 255, 0>>
NearMagenta == <<240, 15, 248>>
DarkA == <<10, 8, 8>>
DarkB == <<11, 8, 8>>

Opaque(c) == <<c[1], c[2], c[3], 255>>

WithAlpha(c, a) == <<c[1], c[2], c[3], a>>

Hex(digits) == [tag |-> "hex", digits |-> digits]

AutoColor == [tag |-> "auto", digits |-> <<>>]

NullColor == [tag |-> "null", digits |-> <<>>]

\* every raster of the given shape over a palette of pixels
Rasters(w, h, channels, palette) ==
  {[width |-> w, height |-> h, channels |-> channels, data |-> d] :
     d \in [1..(w * h) -> palette]}

\* the shapes of at most n pixels
Shapes(n) == {s \in (1..n) \X (1..n) : s[1] * s[2] <= n}

SmallRasters(channels, palette) ==
  UNION {Rasters(s[1], s[2], channels, palette) : s \in Shapes(MaxPixels)}

\* fringe mode with the target output size
CrispMode == <<"crisp", 129, 64>>

HdMode == <<"hd", 64, 64>>

ModeAndSize ==
  {<<"auto", 64, 64>>, <<"auto", 128, 128>>, <<"auto", 129, 64>>, <<"auto", 64, 129>>,
   CrispMode, HdMode}

OptionsIn(modes, colors, tolerances, formats) ==
  {[width |-> m[2], height |-> m[3], format |-> f, transparentColor |-> c,
    colorTolerance |-> t, fringeMode |-> m[1]] :
     m \in modes, f \in formats, c \in colors, t \in tolerances}

OptionsOf(colors, tolerances, formats) ==
  OptionsIn(ModeAndSize, colors, tolerances, formats)

Inputs(rasters, opts) == {[image |-> r, options |-> o] : r \in rasters, o \in opts}

\* magenta backgrounds with a requested magenta or green key
MagentaInputs ==
  Inputs(SmallRasters(4, {Opaque(Magenta), Opaque(Pink60), Opaque(Red),
                          WithAlpha(Pink60, 0)}),
         OptionsIn({CrispMode, HdMode}, {AutoColor, Hex(<<0, 15, 0>>)}, {0, 30, 255},
                   {"png"}))

\* the two paths around the transparency stages
PlainInputs ==
  Inputs(Rasters(1, 1, 3, {Magenta, Red}),
         OptionsOf({NullColor, Hex(MagentaHex)}, {30}, {"png", "webp", "jpg"}))

\* a tolerance so small that the pixels of the key's own bucket are outside
\* the despill zone, with a half-transparent foreground pixel
TinyInputs ==
  Inputs(SmallRasters(4, {Opaque(Magenta), Opaque(NearMagenta), WithAlpha(Red, 128)}),
         OptionsIn({CrispMode, HdMode}, {AutoColor}, {4}, {"png"}))

\* backgrounds of several hues at the same hue distance from magenta
HueInputs ==
  Inputs(SmallRasters(4, {Opaque(Red), Opaque(Blue), Opaque(Yellow)}),
         OptionsIn({CrispMode}, {Hex(MagentaHex)}, {127, 128, 255}, {"png"}))

\* 3x2 images with a magenta left column: two rows of an edge
EdgeRasters ==
  {r \in Rasters(3, 2, 4, {Opaque(Magenta), Opaque(Pink60), Opaque(Red)}) :
     r.data[1] = Opaque(Magenta) /\ r.data[4] = Opaque(Magenta)}

EdgeInputs ==
  Inputs(EdgeRasters, OptionsIn({CrispMode, HdMode}, {AutoColor}, {4, 30}, {"png"}))

\* 3x3 images: one pixel inside a ring of eight
SpeckleRasters ==
  {[width |-> 3, height |-> 3, channels |-> 4,
    data |-> [i \in 1..9 |-> IF i = 5 THEN Opaque(c[1]) ELSE Opaque(c[2])]] :
     c \in {DarkA, DarkB} \X {DarkA, DarkB}}

SpeckleInputs ==
  Inputs(SpeckleRasters,
         OptionsIn({CrispMode, HdMode}, {AutoColor, Hex(<<15, 0, 0>>)}, {0, 2}, {"png"}))

\* 3x7 images: the pixels that are no corner lie in a bucket of their own each,
\* but for the one between the top corners in the images of three red and two
\* blue pixels
Filler(i) == <<16 * (i % 4), 16 * (i \div 4), 200>>

CornerChoices ==
  {c \in [1..5 -> {Red, Blue, Yellow, Cyan, Filler(2)}] :
     /\ \A k \in 1..4 : c[k] # Filler(2)
     /\ \/ c[5] = Filler(2)
        \/ /\ Cardinality({k \in 1..5 : c[k] = Red}) = 3
           /\ Cardinality({k \in 1..5 : c[k] = Blue}) = 2}

CornerRasters ==
  {[width |-> 3, height |-> 7, channels |-> 4,
    data |-> [i \in 1..21 |->
                IF i = 1 THEN Opaque(c[1])
                ELSE IF i = 2 THEN Opaque(c[5])
                ELSE IF i = 3 THEN Opaque(c[2])
                ELSE IF i = 19 THEN Opaque(c[3])
                ELSE IF i = 21 THEN Opaque(c[4])
                ELSE Opaque(Filler(i))]] :
     c \in CornerChoices}

CornerInputs ==
  Inputs(CornerRasters, OptionsIn({CrispMode}, {Hex(MagentaHex)}, {0, 128}, {"png"}))

\* images that are transparent everywhere
TransparentInputs ==
  Inputs(SmallRasters(4, {WithAlpha(Magenta, 0), WithAlpha(Pink60, 0)}),
         OptionsIn({CrispMode, HdMode}, {Hex(<<0, 15, 0>>)}, {30}, {"png"}))

\* a square magenta image with a central opaque red disk: the pixels whose
\* center lies within DiskDiameter / 2 of the center of the image
DiskSize == 12

DiskDiameter == 6

InDisk(x, y) ==
  (2 * x + 1 - DiskSize) * (2 * x + 1 - DiskSize)
    + (2 * y + 1 - DiskSize) * (2 * y + 1 - DiskSize) <= DiskDiameter * DiskDiameter

DiskImage ==
  [width |-> DiskSize, height |-> DiskSize, channels |-> 4,
   data |-> [i \in 1..(DiskSize * DiskSize) |->
               IF InDisk(XOf(i, DiskSize), YOf(i, DiskSize))
                 THEN Opaque(Red) ELSE Opaque(Magenta)]]

DiskInputs ==
  Inputs({DiskImage},
         OptionsIn({<<"auto", 64, 64>>, HdMode}, {Hex(MagentaHex)}, {30}, {"png"}))

\* key colors at and next to the ends of the hue intervals of the despill
\* families: hues 30, 30.1, 89.9, 90, 120, 150, 150.1, 209.9, 210, 269.8, 270
HueEndColors ==
  {<<254, 127, 0>>, <<255, 128, 0>>, <<128, 255, 0>>, <<127, 254, 0>>, <<0, 255, 0>>,
   <<0, 254, 127>>, <<0, 255, 128>>, <<0, 128, 255>>, <<0, 127, 254>>, <<126, 0, 254>>,
   <<127, 0, 254>>}

\* the color at 100/127 of the brightness: a pixel of the despill zone of c
Dimmed(c) == [k \in 1..3 |-> Min2(255, (c[k] * 100 + 63) \div 127)]

GreyGreen == <<100, 120, 100>>

\* a key color with a second pixel: near the key, or with a small green excess
KeyAndSpill ==
  {<<c, Dimmed(c)>> : c \in HueEndColors}
    \cup {<<GreyGreen, <<130, 139, 130>>>>, <<GreyGreen, <<128, 139, 128>>>>,
          <<<<0, 255, 0>>, <<100, 109, 100>>>>, <<<<0, 255, 0>>, <<100, 111, 100>>>>,
          <<Yellow, <<255, 255, 60>>>>, <<Yellow, <<200, 90, 40>>>>}

\* 2x1 images of a key-colored pixel and a second pixel, opaque or not
FamilyRasters ==
  {[width |-> 2, height |-> 1, channels |-> 4,
    data |-> <<Opaque(ks[1]), WithAlpha(ks[2], a)>>] :
     ks \in KeyAndSpill, a \in {255, 64}}

FamilyInputs ==
  Inputs(FamilyRasters,
         OptionsIn({CrispMode, HdMode}, {Hex(<<15, 0, 0>>), Hex(<<0, 15, 15>>)}, {30},
                   {"png"}))

Black == <<0, 0, 0>>

\* rows of a key-colored pixel, one or two black pixels and a last pixel far
\* from the key, opaque or not: in hd mode the last pixel is the one the
\* boundary despill (3 pixels) or the alpha-weighted despill (4 pixels) works on
RowRasters ==
  {[width |-> n, height |-> 1, channels |-> 4,
    data |-> [i \in 1..n |->
                IF i = 1 THEN Opaque(c)
                ELSE IF i = n THEN WithAlpha(y, a) ELSE Opaque(Black)]] :
     n \in {3, 4}, c \in {<<0, 255, 0>>, Yellow},
     y \in {<<100, 109, 100>>, <<100, 111, 100>>, <<60, 200, 90>>, <<200, 90, 40>>},
     a \in {255, 64}}

RowInputs ==
  Inputs(RowRasters,
         OptionsIn({CrispMode, HdMode}, {Hex(<<0, 15, 0>>), Hex(<<15, 15, 0>>)}, {30},
                   {"png"}))

\* rows of a magenta or yellow pixel and two pixels far from it, with or
\* without green, the last opaque or not, under every requested fringe mode:
\* the boundary despill works on the second pixel in crisp mode and on the
\* third in hd mode
ModeRasters ==
  {[width |-> 3, height |-> 1, channels |-> 4,
    data |-> <<Opaque(c), Opaque(z), WithAlpha(y, a)>>] :
     c \in {Magenta, Yellow}, z \in {<<200, 60, 180>>, <<200, 0, 180>>},
     y \in {<<200, 60, 180>>, <<200, 0, 180>>}, a \in {255, 64, 16}}

ModeInputs ==
  Inputs(ModeRasters,
         OptionsIn({<<"auto", 64, 64>>, <<"auto", 129, 64>>, CrispMode, HdMode},
                   {Hex(MagentaHex), Hex(<<15, 15, 0>>)}, {30}, {"png"}))

\* 3x2 images whose top row starts with two magenta pixels, the other four
\* pixels of four dark colors, each in a histogram bin of its own; at tolerance
\* 128 they are outside the despill zone of the keyer and within the threshold
\* of the cleanup. In crisp mode the pixel below the second magenta pixel has
\* 5 transparent neighbors when the cleanup starts, and 2 more neighbors that
\* the cleanup clears
NearKeyColors == {<<0, 8, 0>>, <<0, 24, 0>>, <<16, 8, 0>>, <<0, 8, 16>>}

CascadeRasters ==
  {r \in Rasters(3, 2, 4, {Opaque(Magenta)} \cup {Opaque(c) : c \in NearKeyColors}) :
     /\ r.data[1] = Opaque(Magenta) /\ r.data[2] = Opaque(Magenta)
     /\ {r.data[i] : i \in 3..6} = {Opaque(c) : c \in NearKeyColors}}

CascadeInputs ==
  Inputs(CascadeRasters, OptionsIn({CrispMode, HdMode}, {AutoColor}, {128}, {"png"}))

AllInputs ==
  MagentaInputs \cup PlainInputs \cup TinyInputs \cup HueInputs \cup EdgeInputs
    \cup SpeckleInputs \cup CornerInputs \cup TransparentInputs \cup DiskInputs
    \cup FamilyInputs \cup RowInputs \cup ModeInputs \cup CascadeInputs

\* postProcess called on its own: no generate_image call is in progress
NoCall ==
  /\ args = <<>>
  /\ env = <<>>
  /\ epc = "idle"
  /\ geminiRequest = <<>>
  /\ rawImageBuffer = <<>>
  /\ files = <<>>
  /\ log = <<>>
  /\ reply = <<>>

InitFrom(inputs) ==
  /\ \E in \in inputs :
       /\ inputBuffer = in.image
       /\ options = in.options
       /\ pixels = in.image.data
       /\ stageInput = in.image.data
  /\ pc = "start"
  /\ debugInfo = NoDebugInfo
  /\ despillKind = "none"
  /\ resolvedMode = "none"
  /\ stages = <<>>
  /\ output = NoOutput
  /\ NoCall

Init == InitFrom(AllInputs)

Next ==
  \/ SelectKeyColor
  \/ SkipTransparency
  \/ KeyAndDespill
  \/ ResolveMode
  \/ HdClear
  \/ BoundaryDespill
  \/ AlphaDespill
  \/ Speckle
  \/ Resize
  \/ Encode

Spec == Init /\ [][Next]_vars

\* ------------------------------------------------------------------------
\* generate_image: the execute handler of the tool
\* ------------------------------------------------------------------------

\* the state of postProcess
pipeline == <<inputBuffer, options, pc, pixels, debugInfo, despillKind,
              resolvedMode, stageInput, stages, output>>

\* A text is the sequence of its words and punctuation marks.
\* String.prototype.includes: the phrase occurs in the text, word by word
Includes(text, phrase) ==
  \E i \in 0..(Len(text) - Len(phrase)) :
    \A k \in 1..Len(phrase) : text[i + k] = phrase[k]

\* the words written with capital letters, and what toLowerCase makes of them
LowerCaseOf ==
  [w \in {"Rate", "RATE", "Limit", "LIMIT", "No", "Gemini", "API", "Failed",
          "Too", "Many", "Requests", "Internal", "Try", "Errors", "EACCES",
          "ENOENT", "GEMINI_API_KEY", "Input", "A", "IMPORTANT", "Focus",
          "Subject", "CRITICAL", "BACKGROUND", "REQUIREMENT"} |->
     CASE w \in {"Rate", "RATE"} -> "rate"
       [] w \in {"Limit", "LIMIT"} -> "limit"
       [] w = "No" -> "no"
       [] w = "Gemini" -> "gemini"
       [] w = "API" -> "api"
       [] w = "Failed" -> "failed"
       [] w = "Too" -> "too"
       [] w = "Many" -> "many"
       [] w = "Requests" -> "requests"
       [] w = "Internal" -> "internal"
       [] w = "Try" -> "try"
       [] w = "Errors" -> "errors"
       [] w = "EACCES" -> "eacces"
       [] w = "ENOENT" -> "enoent"
       [] w = "GEMINI_API_KEY" -> "gemini_api_key"
       [] w = "Input" -> "input"
       [] w = "A" -> "a"
       [] w = "IMPORTANT" -> "important"
       [] w = "Focus" -> "focus"
       [] w = "Subject" -> "subject"
       [] w = "CRITICAL" -> "critical"
       [] w = "BACKGROUND" -> "background"
       [] w = "REQUIREMENT" -> "requirement"]

\* String.prototype.toLowerCase
toLowerCase(text) ==
  [i \in 1..Len(text) |->
     IF text[i] \in DOMAIN LowerCaseOf THEN LowerCaseOf[text[i]] ELSE text[i]]

\* path.isAbsolute: a path is the sequence of its segments, the root first
isAbsolute(p) == Len(p) > 0 /\ p[1] = "/"

\* path.resolve(dir, name) of an absolute dir: a file is [dir, name]
resolve(dir, name) == [dir |-> dir, name |-> name]

\* a file: what wrote it, and the buffer written
File(kind, buffer) == [kind |-> kind, buffer |-> buffer]

\* fsSync.existsSync
existsSync(fs, p) == p \in DOMAIN fs

\* fs.writeFile, sharp.toFile: the file at p is created or replaced
writeFile(fs, p, content) ==
  [q \in DOMAIN fs \cup {p} |-> IF q = p THEN content ELSE fs[q]]

\* ---- generateWithGemini ----

\* MODELS[options.modelTier]
MODELS(modelTier) ==
  CASE modelTier \in {"Flash3.1", "flash"} -> "gemini-3.1-flash-image-preview"
    [] modelTier = "Flash2.5" -> "gemini-2.5-flash-image"
    [] modelTier \in {"Pro3", "pro"} -> "gemini-3-pro-image-preview"

\* the chroma key block appended to the prompt
ChromaKeyInstructions ==
  <<"CRITICAL", "BACKGROUND", "REQUIREMENT", ":", "The", "background", "MUST",
    "be", "a", "solid", ",", "uniform", "chroma", "key", "screen">>

\* enhancedPrompt: the chroma key instructions only if options.transparent
enhancedPrompt(o) ==
  IF o.transparent
    THEN <<"Subject", ":">> \o o.prompt \o ChromaKeyInstructions
    ELSE o.prompt

\* bgColor of the chroma key instructions
bgColor(o) ==
  IF o.transparentColor.tag \in {"null", "auto"} THEN MagentaHex
  ELSE o.transparentColor.digits

\* finalPrompt: the prompt and the aspect ratio hint
finalPrompt(o) ==
  enhancedPrompt(o) \o <<"IMPORTANT", ":", "Focus", "on", "generating", "a",
                         "high-quality", "asset">>

\* the words of a text kept by text.slice(0, 120)
PreviewLength == 120

textPreview(text) == SubSeq(text, 1, Min2(Len(text), PreviewLength))

\* reqObj: the model, the number of inline images and the text part
reqObj(o) ==
  [model |-> MODELS(o.modelTier),
   inlineData |-> Len(o.referenceImages),
   text |-> finalPrompt(o),
   transparent |-> o.transparent,
   bgColor |-> IF o.transparent THEN bgColor(o) ELSE <<>>]

MissingKeyError ==
  <<"GEMINI_API_KEY", "environment", "variable", "is", "not", "set">>

NoImageError ==
  <<"No", "image", "in", "response", ".", "Try", "refining", "the", "prompt", ".">>

\* `Gemini API call failed: ${msg} | request=${JSON.stringify(details)}`
ApiCallError(msg, req) ==
  <<"Gemini", "API", "call", "failed", ":">> \o msg \o <<"|", "request", "=">>
    \o <<req.model>> \o textPreview(req.text)

\* ---- execute ----

OutputPathRequired ==
  <<"outputPath", "is", "required", "when", "outputType", "is", "\"file\"", "or",
    "\"combine\"">>

DebugPathMessage ==
  <<"Debug", "mode", ":", "outputPath", "must", "be", "provided", "and", "be",
    "an", "absolute", "path", "when", "writing", "debug", "files">>

AbsolutePathMessage ==
  <<"outputPath", "must", "be", "an", "absolute", "path", "when", "saving",
    "files">>

RateLimitMessage ==
  <<"Rate", "limit", "exceeded", ".", "Please", "retry", "after", "60",
    "seconds", ".">>

NoImageMessage ==
  <<"No", "image", "in", "response", ".", "Try", "refining", "the", "prompt", ".">>

\* transparencyWarning
transparencyWarning(a) ==
  IF a.transparent /\ a.output_format = "jpg"
    THEN <<"Warning", ":", "Transparency", "is", "ignored", "for", "JPG",
           "output", ".">>
    ELSE <<>>

\* shouldApplyTransparency
shouldApplyTransparency(a) ==
  a.transparent /\ a.output_format \in {"png", "webp"}

\* resolvedTransparentColor: args.transparentColor || '#FF00FF', or null
resolvedTransparentColor(a) ==
  IF shouldApplyTransparency(a)
    THEN (IF a.transparentColor.tag = "null" THEN Hex(MagentaHex)
          ELSE a.transparentColor)
    ELSE NullColor

postProcessOptions(a) ==
  [width |-> a.outputWidth, height |-> a.outputHeight, format |-> a.output_format,
   transparentColor |-> resolvedTransparentColor(a),
   colorTolerance |-> a.colorTolerance, fringeMode |-> a.fringeMode]

\* the options with transparent passed on whatever the output format
geminiOptionsAnyFormat(a) ==
  [prompt |-> a.prompt, modelTier |-> a.model, transparent |-> a.transparent,
   transparentColor |-> a.transparentColor, referenceImages |-> a.referenceImages]

\* the options execute hands to generateWithGemini
geminiOptions(a) ==
  [prompt |-> a.prompt, modelTier |-> a.model,
   transparent |-> a.transparent /\ a.output_format \in {"png", "webp"},
   transparentColor |-> a.transparentColor,
   referenceImages |->
     SubSeq(a.referenceImages, 1,
            Min2(Len(a.referenceImages), IF a.model = "Flash2.5" THEN 3 ELSE 14))]

mimeType(format) ==
  CASE format = "png" -> "image/png"
    [] format = "webp" -> "image/webp"
    [] OTHER -> "image/jpeg"

\* the extension of a file name is its last word
Extension(format) ==
  CASE format = "png" -> ".png" [] format = "webp" -> ".webp" [] OTHER -> ".jpg"

\* fileName: args.outputFileName, with the extension unless it ends with it
fileName(a) ==
  IF a.outputFileName[Len(a.outputFileName)] = Extension(a.output_format)
    THEN a.outputFileName
    ELSE Append(a.outputFileName, Extension(a.output_format))

\* fallbackDir
fallbackDir ==
  IF env.MCP_FALLBACK_OUTPUT # <<>> THEN env.MCP_FALLBACK_OUTPUT
  ELSE <<"/", "install-dir", "fallback-output">>

\* what Date.now() returns
Now == "1700000000000"

\* `${base}_${Date.now()}${ext}`
Stamped(name) ==
  SubSeq(name, 1, Len(name) - 1) \o <<"_", Now>> \o <<name[Len(name)]>>

\* the file of the given name in the fallback directory, whether it exists or not
fallbackSameName(fs, name) == resolve(fallbackDir, name)

\* the file of the fallback directory that is written: the name itself, or the
\* stamped name if a file of that name exists
fallbackFullPath(fs, name) ==
  IF existsSync(fs, resolve(fallbackDir, name))
    THEN resolve(fallbackDir, Stamped(name))
    ELSE resolve(fallbackDir, name)

\* `${args.outputFileName}_debug_raw.png`
DebugRawName(a) == a.outputFileName \o <<"_debug_raw", ".png">>

Entry(level, message, error) ==
  [level |-> level, message |-> message, error |-> error]

\* the reply of a failed call
Failure(message) ==
  [content |-> <<[type |-> "text",
                  text |-> [success |-> FALSE, message |-> message, width |-> 0,
                            height |-> 0, format |-> ""]]>>]

\* the message chosen without toLowerCase
userMessageCaseSensitive(errorMessage) ==
  IF \/ Includes(errorMessage, <<"429">>)
     \/ Includes(errorMessage, <<"rate", "limit">>)
    THEN RateLimitMessage
  ELSE IF Includes(errorMessage, <<"No", "image", "in", "response">>)
    THEN NoImageMessage
  ELSE <<"Generation", "failed", ":">> \o errorMessage

\* userMessage of the catch block
userMessage(errorMessage) ==
  IF \/ Includes(errorMessage, <<"429">>)
     \/ Includes(toLowerCase(errorMessage), <<"rate", "limit">>)
    THEN RateLimitMessage
  ELSE IF Includes(errorMessage, <<"No", "image", "in", "response">>)
    THEN NoImageMessage
  ELSE <<"Generation", "failed", ":">> \o errorMessage

\* throw new Error(errorMessage) inside the try block, after the given log
\* entries: the catch block
ThrowAfter(entries, errorMessage) ==
  /\ log' = log \o entries \o
              <<Entry("error", "Image generation failed", errorMessage)>>
  /\ reply' = Failure(userMessage(errorMessage))
  /\ epc' = "returned"

Throw(errorMessage) == ThrowAfter(<<>>, errorMessage)

\* return { content: [...] } of a failed validation
ReturnFailure(message) ==
  /\ reply' = Failure(message)
  /\ epc' = "returned"
  /\ log' = log

\* a validation that lets a call without outputPath pass
ValidateArgsWithoutPath ==
  /\ epc = "called"
  /\ epc' = "references"
  /\ reply' = reply
  /\ log' = IF args.transparent /\ args.output_format = "jpg"
              THEN Append(log, Entry("warn",
                     "Transparency requested with JPG format", <<>>))
              ELSE log
  /\ UNCHANGED <<args, env, geminiRequest, rawImageBuffer, files>>
  /\ UNCHANGED pipeline

\* the validation of outputPath and of transparency with jpg
ValidateArgs ==
  /\ epc = "called"
  /\ IF args.outputType \in {"file", "combine"} /\ args.outputPath = <<>>
       THEN ReturnFailure(OutputPathRequired)
       ELSE /\ epc' = "references"
            /\ reply' = reply
            /\ log' = IF args.transparent /\ args.output_format = "jpg"
                        THEN Append(log, Entry("warn",
                               "Transparency requested with JPG format", <<>>))
                        ELSE log
  /\ UNCHANGED <<args, env, geminiRequest, rawImageBuffer, files>>
  /\ UNCHANGED pipeline

\* what loadReferenceImage can fail with
ReadErrors == {<<"ENOENT", ":", "no", "such", "file">>,
               <<"Unsupported", "image", "format">>}

\* 2. Load and prepare reference images from file paths
LoadReferenceImages ==
  /\ epc = "references"
  /\ \/ /\ epc' = "generate"
        /\ UNCHANGED <<log, reply>>
     \/ \E k \in 1..Len(args.referenceImages), errMsg \in ReadErrors :
          Throw(<<"Failed", "to", "load", "reference", "image">>
                  \o args.referenceImages[k].filePath \o <<":">> \o errMsg)
  /\ UNCHANGED <<args, env, geminiRequest, rawImageBuffer, files>>
  /\ UNCHANGED pipeline

\* what the API call can fail with
ApiErrors == {<<"got", "status", ":", "429", "Too", "Many", "Requests">>,
              <<"Rate", "Limit", "reached">>,
              <<"got", "status", ":", "500", "Internal">>}

\* a buffer that is not an image
Corrupt == [width |-> 0, height |-> 0, channels |-> 0, data |-> <<>>]

\* the images the API answers with
RawImages ==
  {[width |-> 2, height |-> 1, channels |-> 3, data |-> <<Magenta, Red>>],
   Corrupt}

\* 3. Call Gemini API: generateWithGemini
CallGemini ==
  /\ epc = "generate"
  /\ IF env.GEMINI_API_KEY = ""
       THEN /\ Throw(MissingKeyError)
            /\ UNCHANGED <<geminiRequest, rawImageBuffer>>
       ELSE /\ geminiRequest' = reqObj(geminiOptions(args))
            /\ \/ \E msg \in ApiErrors :
                    /\ Throw(ApiCallError(msg, geminiRequest'))
                    /\ UNCHANGED rawImageBuffer
               \/ /\ Throw(NoImageError)
                  /\ UNCHANGED rawImageBuffer
               \/ \E image \in RawImages :
                    /\ rawImageBuffer' = image
                    /\ epc' = IF args.debug THEN "debug" ELSE "postProcess"
                    /\ UNCHANGED <<log, reply>>
  /\ UNCHANGED <<args, env, files>>
  /\ UNCHANGED pipeline

\* Debug: save raw Gemini output
SaveDebugRaw ==
  /\ epc = "debug"
  /\ IF args.outputPath = <<>> \/ ~isAbsolute(args.outputPath)
       THEN /\ ReturnFailure(DebugPathMessage)
            /\ UNCHANGED files
       ELSE /\ epc' = "postProcess"
            /\ reply' = reply
            /\ \/ /\ rawImageBuffer # Corrupt
                  /\ files' = writeFile(files,
                       resolve(args.outputPath, DebugRawName(args)),
                       File("debug", rawImageBuffer))
                  /\ log' = log
               \/ /\ rawImageBuffer # Corrupt
                  /\ files' = writeFile(files,
                       fallbackFullPath(files, DebugRawName(args)),
                       File("debug", rawImageBuffer))
                  /\ log' = log \o
                       <<Entry("warn", "Failed to write debug raw image", <<>>),
                         Entry("warn", "Saved debug raw image to fallback", <<>>)>>
               \/ /\ files' = files
                  /\ log' = log \o
                       <<Entry("warn", "Failed to write debug raw image", <<>>),
                         Entry("error",
                           "Failed to write debug raw image to fallback", <<>>)>>
  /\ UNCHANGED <<args, env, geminiRequest, rawImageBuffer>>
  /\ UNCHANGED pipeline

UnsupportedImageError ==
  <<"Input", "buffer", "contains", "unsupported", "image", "format">>

\* 4. Post-processing: postProcess(rawImageBuffer, postProcessOptions) is called
CallPostProcess ==
  /\ epc = "postProcess"
  /\ IF rawImageBuffer = Corrupt
       THEN /\ Throw(UnsupportedImageError)
            /\ UNCHANGED pipeline
       ELSE /\ epc' = "postProcessing"
            /\ inputBuffer' = rawImageBuffer
            /\ options' = postProcessOptions(args)
            /\ pixels' = rawImageBuffer.data
            /\ stageInput' = rawImageBuffer.data
            /\ pc' = "start"
            /\ debugInfo' = NoDebugInfo
            /\ despillKind' = "none"
            /\ resolvedMode' = "none"
            /\ stages' = <<>>
            /\ output' = NoOutput
            /\ UNCHANGED <<log, reply>>
  /\ UNCHANGED <<args, env, geminiRequest, rawImageBuffer, files>>

\* processedBuffer: the encoded raster
processedBuffer == [pixels |-> pixels, encoded |-> output.encoded]

\* 5. Build result
BuiltResult ==
  LET result == [success |-> TRUE, width |-> args.outputWidth,
                 height |-> args.outputHeight, format |-> args.output_format,
                 mimeType |-> mimeType(args.output_format),
                 message |-> <<"Image", "generated", "successfully", ".">>
                               \o transparencyWarning(args)]
  IN  IF args.debug THEN result @@ [debugPrompt |-> args.prompt] ELSE result

\* a return without the base64 data and without the image content item
ReturnTextOnly(result) ==
  /\ reply' = [content |-> <<[type |-> "text", text |-> result]>>]
  /\ epc' = "returned"

\* Base64 encode and build return content
Return(result) ==
  /\ reply' =
       IF args.outputType \in {"base64", "combine"}
         THEN [content |->
                 <<[type |-> "text",
                    text |-> result @@ [base64 |-> <<"base64", processedBuffer>>]],
                   [type |-> "image", data |-> <<"base64", processedBuffer>>,
                    mimeType |-> mimeType(args.output_format)]>>]
         ELSE [content |-> <<[type |-> "text", text |-> result]>>]
  /\ epc' = "returned"

\* what a write can fail with
WriteErrors == {<<"EACCES", ":", "permission", "denied">>,
                <<"ENOSPC", ":", "no", "space", "left", "on", "device">>}

\* `Failed to write output to requested path and fallback. Errors: ...`
WriteFailedError(err, fallbackErr) ==
  <<"Failed", "to", "write", "output", "to", "requested", "path", "and",
    "fallback", ".", "Errors", ":">> \o err \o <<";">> \o fallbackErr

\* Save file (when outputType is 'file' or 'combine'), then return
SaveAndReturn ==
  /\ epc = "postProcessing"
  /\ pc = "done"
  /\ IF args.outputType \in {"file", "combine"}
       THEN IF ~isAbsolute(args.outputPath)
              THEN /\ ReturnFailure(AbsolutePathMessage)
                   /\ UNCHANGED files
              ELSE LET fullPath == resolve(args.outputPath, fileName(args))
                       fallback == fallbackFullPath(files, fileName(args))
                   IN  \/ /\ files' = writeFile(files, fullPath, File("output", processedBuffer))
                          /\ Return([filePath |-> fullPath] @@ BuiltResult)
                          /\ log' = log
                       \/ /\ files' = writeFile(files, fallback, File("output", processedBuffer))
                          /\ Return(
                               [filePath |-> fallback,
                                warning |-> <<"Requested", "path", "not", "writable",
                                              ";", "saved", "to", "fallback", ":">>,
                                message |-> IF args.debug
                                  THEN BuiltResult.message \o
                                         <<"(", "saved", "to", "fallback", ")">>
                                  ELSE BuiltResult.message] @@ BuiltResult)
                          /\ log' = log \o
                               <<Entry("warn", "Failed to write to requested outputPath", <<>>),
                                 Entry("warn", "Saved output to fallback", <<>>)>>
                       \/ \E err \in WriteErrors, fallbackErr \in WriteErrors :
                            /\ ThrowAfter(
                                 <<Entry("warn", "Failed to write to requested outputPath", <<>>),
                                   Entry("error", "Fallback write failed", <<>>)>>,
                                 WriteFailedError(err, fallbackErr))
                            /\ files' = files
       ELSE /\ Return(BuiltResult)
            /\ UNCHANGED <<files, log>>
  /\ UNCHANGED <<args, env, geminiRequest, rawImageBuffer>>
  /\ UNCHANGED pipeline

\* ---- the calls and the environments ----

Prompts == {<<"A", "red", "square">>, <<"No", "image", "in", "response">>}

OutputPaths == {<<>>, <<".", "out">>, <<"/", "out">>}

ReferenceLists ==
  {<<>>, <<[filePath |-> <<"/", "refs", "style.png">>, description |-> <<>>]>>}

GreenHex == <<0, 0, 15, 15, 0, 0>>

\* the arguments of a call, after the defaults of the schema
Calls ==
  {a \in [prompt : Prompts, outputFileName : {<<"img">>, <<"img", ".png">>},
          outputType : {"file", "base64", "combine"}, model : {"Flash3.1"},
          outputWidth : {64}, outputHeight : {64},
          output_format : {"png", "jpg", "webp"}, outputPath : OutputPaths,
          transparent : BOOLEAN, transparentColor : {NullColor, Hex(GreenHex)},
          colorTolerance : {30}, fringeMode : {"auto", "hd"},
          referenceImages : ReferenceLists, debug : BOOLEAN] :
     /\ a.transparentColor # NullColor => a.transparent /\ a.fringeMode = "auto"
     /\ a.fringeMode = "hd" => a.transparent /\ ~a.debug
     /\ a.outputFileName # <<"img">> =>
          a.prompt = <<"A", "red", "square">> /\ ~a.debug /\ a.referenceImages = <<>>
     /\ a.referenceImages # <<>> =>
          /\ ~a.debug
          /\ a.outputType = "base64" \/ a.outputPath = <<>>}

\* process.env
Environments ==
  {[GEMINI_API_KEY |-> "key", MCP_FALLBACK_OUTPUT |-> <<>>],
   [GEMINI_API_KEY |-> "", MCP_FALLBACK_OUTPUT |-> <<>>],
   [GEMINI_API_KEY |-> "key", MCP_FALLBACK_OUTPUT |-> <<"/", "fallback">>]}

\* the file of the call's name that the fallback directory may hold
OldFile == [p \in {resolve(fallbackDir, fileName(args))} |-> File("old", <<>>)]

\* the same, with a file of the stamped name next to it
OlderFiles ==
  [p \in {resolve(fallbackDir, fileName(args)),
          resolve(fallbackDir, Stamped(fileName(args)))} |-> File("old", <<>>)]

ExecuteInit ==
  /\ args \in Calls
  /\ env \in Environments
  /\ epc = "called"
  /\ geminiRequest = <<>>
  /\ rawImageBuffer = <<>>
  /\ files \in {<<>>, OldFile, OlderFiles}
  /\ log = <<>>
  /\ reply = <<>>
  /\ inputBuffer = <<>>
  /\ options = <<>>
  /\ pc = "idle"
  /\ pixels = <<>>
  /\ debugInfo = NoDebugInfo
  /\ despillKind = "none"
  /\ resolvedMode = "none"
  /\ stageInput = <<>>
  /\ stages = <<>>
  /\ output = NoOutput

ExecuteNext ==
  \/ ValidateArgs
  \/ LoadReferenceImages
  \/ CallGemini
  \/ SaveDebugRaw
  \/ CallPostProcess
  \/ SelectKeyColor
  \/ SkipTransparency
  \/ KeyAndDespill
  \/ ResolveMode
  \/ HdClear
  \/ BoundaryDespill
  \/ AlphaDespill
  \/ Speckle
  \/ Resize
  \/ Encode
  \/ SaveAndReturn

ExecuteSpec == ExecuteInit /\ [][ExecuteNext]_vars

\* ------------------------------------------------------------------------
\* Properties
\* ------------------------------------------------------------------------

\* the raster applyTransparency starts from
InputPixels == ensureAlpha(inputBuffer)

\* applyTransparency has run to its end
AfterTransparency == TransparencyEnabled /\ pc \in {"transparent", "resized", "done"}

Tolerance == options.colorTolerance

\* C1: for an image in which every pixel's RGB equals the selected key color,
\* every pixel has alpha 0 after the transparency stages (4.2 to 4.6), whatever
\* the tolerance and the fringe mode.
C1_SolidKeyImageCleared ==
  (AfterTransparency /\ \A i \in DOMAIN InputPixels : Rgb(InputPixels[i]) = KeyColor)
    => \A i \in DOMAIN pixels : pixels[i][4] = 0

\* an opaque solid image of the key color, tolerance 0, hd: all cleared
C1_Witness ==
  /\ pc = "done" /\ TransparencyEnabled
  /\ Len(InputPixels) >= 2
  /\ \A i \in DOMAIN InputPixels : InputPixels[i] = Opaque(KeyColor)
  /\ Tolerance = 0 /\ resolvedMode = "hd"
  /\ \A i \in DOMAIN pixels : pixels[i][4] = 0

RECURSIVE FrozenDespillFrom(_, _, _, _, _, _, _)
FrozenDespillFrom(rgbaPixels, snapshot, i, width, height, kind, mode) ==
  IF i > Len(rgbaPixels) THEN rgbaPixels
  ELSE FrozenDespillFrom(
         DespillBoundaryPixel(rgbaPixels, snapshot, i, width, height, kind, mode),
         snapshot, i + 1, width, height, kind, mode)

FrozenBoundaryDespillPass(rgbaPixels, width, height, kind, mode) ==
  FrozenDespillFrom(rgbaPixels, rgbaPixels, 1, width, height, kind, mode)

\* C3: the boundary despill pass (4.4) computes the new color of every
\* boundary pixel from the buffer as it was when the pass started, never from
\* a color the same sweep wrote for another pixel: its result is that of a
\* pass reading neighbor colors from a frozen copy, whatever the visiting order.
C3_BoundaryDespillReadsSnapshot ==
  pc = "despilledA" =>
    pixels = FrozenBoundaryDespillPass(stageInput, inputBuffer.width,
               inputBuffer.height, despillKind, resolvedMode)

IsPrefix(s, t) == Len(s) <= Len(t) /\ SubSeq(t, 1, Len(s)) = s

\* the stages of a run with transparency, for the options of the run
ExpectedStages ==
  <<"select", "key", "resolve">>
    \o (IF resolveFringeMode(options.fringeMode, options.width, options.height) = "hd"
          THEN <<"hdclear">> ELSE <<>>)
    \o <<"boundary", "alpha", "speckle", "resize", "encode">>

\* C4: a postProcess run with transparency enabled runs the stages once each
\* in the fixed order: key color selection, keying with primary despill, fringe
\* mode resolution, hd boundary clear (only when the resolved mode is hd),
\* boundary despill, alpha-weighted despill, speckle cleanup, resize, encode;
\* none is repeated or reordered, and the resize follows the transparency stages.
C4_FixedStageOrder ==
  TransparencyEnabled =>
    /\ IsPrefix(stages, ExpectedStages)
    /\ pc = "done" => stages = ExpectedStages
    /\ output.resized => pc \in {"resized", "done"}

\* a finished run in crisp mode: eight stages, no boundary clear
C4_Witness ==
  /\ pc = "done" /\ TransparencyEnabled /\ resolvedMode = "crisp"
  /\ stages = <<"select", "key", "resolve", "boundary", "alpha", "speckle",
                "resize", "encode">>

\* no pixel of the input lies within despillThreshold of the key color
NoPixelNearKey ==
  \A i \in DOMAIN InputPixels :
    100 * Dist2(InputPixels[i], KeyColor) > 648 * Tolerance * Tolerance

NoPixelTransparent == \A i \in DOMAIN InputPixels : InputPixels[i][4] # 0

AllOpaque == \A i \in DOMAIN InputPixels : InputPixels[i][4] = 255

\* no pixel of the input lies within the cleanup threshold of the key color:
\* 2.0 times rgbThreshold, 3.0 times in hd mode
NoPixelNearCleanup ==
  \A i \in DOMAIN InputPixels :
    Dist2(InputPixels[i], KeyColor) >
      (IF resolvedMode = "hd" THEN 18 ELSE 8) * Tolerance * Tolerance

\* the input after the hd boundary clear alone
ClearedInput ==
  IF resolvedMode = "hd"
    THEN HdBoundaryClear(InputPixels, inputBuffer.width, inputBuffer.height)
    ELSE InputPixels

\* C5 as stated: if no input pixel lies within despillThreshold of the key
\* color, stages 4.2 to 4.6 leave every byte unchanged, except for alpha cleared
\* by the hd boundary clear (4.3); and if moreover no pixel is transparent, the
\* buffer is unchanged altogether; for every size, tolerance and fringe mode.
C5_FrameAsStated ==
  (AfterTransparency /\ NoPixelNearKey) =>
    /\ \A i \in DOMAIN pixels :
         /\ Rgb(pixels[i]) = Rgb(InputPixels[i])
         /\ pixels[i][4] \in {InputPixels[i][4], ClearedInput[i][4]}
    /\ NoPixelTransparent => pixels = InputPixels

\* C5, amended: if no input pixel lies within despillThreshold of the key
\* color, the keying sweep (4.2) leaves every byte unchanged; if moreover every
\* input pixel is fully opaque and either no pixel lies within the cleanup
\* threshold (2.0 times rgbThreshold, 3.0 times in hd mode) or the image is at
\* least 2 pixels wide and 2 pixels high, stages 4.3 to 4.6 leave every byte
\* unchanged as well.
C5_FrameWhenFarFromKey ==
  /\ (pc = "keyed" /\ NoPixelNearKey) => pixels = stageInput
  /\ ( /\ TransparencyEnabled
       /\ pc \in {"resolved", "cleared", "despilledA", "despilledB", "transparent",
                  "resized", "done"}
       /\ NoPixelNearKey /\ AllOpaque
       /\ NoPixelNearCleanup \/ (inputBuffer.width >= 2 /\ inputBuffer.height >= 2) )
     => pixels = InputPixels

\* a finished hd run on a 3x2 opaque image with a pixel between despillThreshold
\* and the cleanup threshold: nothing has changed
C5_Witness ==
  /\ pc = "done" /\ TransparencyEnabled /\ resolvedMode = "hd"
  /\ NoPixelNearKey /\ AllOpaque /\ ~NoPixelNearCleanup
  /\ inputBuffer.width >= 2 /\ inputBuffer.height >= 2
  /\ pixels = InputPixels

\* C6: the keying sweep (4.2) run on an image in which every pixel already has
\* alpha 0 changes nothing, neither alpha nor a color channel, for every key
\* color and tolerance.
C6_KeyerKeepsTransparentImage ==
  (pc = "keyed" /\ \A i \in DOMAIN stageInput : stageInput[i][4] = 0)
    => pixels = stageInput

\* the key color selection has run
Selected == TransparencyEnabled /\ pc # "start"

\* the hue of the requested color, and the distance of a color's hue to it
RequestedHue ==
  LET c == parseHexColor(normalizeTransparentColor(options.transparentColor))
  IN  rgbToHsv(c[1], c[2], c[3])

HueGap(c) == hueDistance(rgbToHsv(c[1], c[2], c[3]), RequestedHue)

\* a bucket is the triple of the 4 high bits of R, G and B
BucketOf(p) == <<p[1] \div 16, p[2] \div 16, p[3] \div 16>>

Buckets == {BucketOf(InputPixels[i]) : i \in DOMAIN InputPixels}

CountIn(b) == Cardinality({i \in DOMAIN InputPixels : BucketOf(InputPixels[i]) = b})

CenterOf(b) == <<b[1] * 16 + 8, b[2] * 16 + 8, b[3] * 16 + 8>>

\* the bucket holds at least 5% of the pixels
ReachesArea(b) == 100 * CountIn(b) >= 5 * Len(InputPixels)

\* ... and the hue of its center is within tolerance / 255 * 120 degrees
Qualifies(b) ==
  /\ ReachesArea(b)
  /\ RatLeq(HueGap(CenterOf(b)), <<120 * Tolerance, 255>>)

\* top-left, top-right, bottom-left, bottom-right
Corners ==
  LET w == inputBuffer.width
      h == inputBuffer.height
  IN  <<Rgb(InputPixels[1]), Rgb(InputPixels[w]), Rgb(InputPixels[(h - 1) * w + 1]),
        Rgb(InputPixels[h * w])>>

\* C7: key color selection (4.1) is total: for every image with a pixel, every
\* requested color and every tolerance it returns a selection; the method is
\* 'corner' when no histogram bucket qualifies, and then the color is one of the
\* four corner pixels; otherwise the method is 'histogram'.
C7_SelectionTotal ==
  Selected =>
    /\ debugInfo.selectionMethod \in {"histogram", "corner"}
    /\ Len(debugInfo.selectedColor) = 6
    /\ KeyColor \in (0..255) \X (0..255) \X (0..255)
    /\ debugInfo.selectionMethod = "corner" <=> ~\E b \in Buckets : Qualifies(b)
    /\ debugInfo.selectionMethod = "corner" => \E k \in 1..4 : KeyColor = Corners[k]

\* no bucket qualifies although every bucket reaches 5%: the fallback returns a
\* corner pixel that is the center of no bucket
C7_Witness ==
  /\ pc = "selected"
  /\ \A b \in Buckets : ReachesArea(b) /\ ~Qualifies(b)
  /\ debugInfo.selectionMethod = "corner"
  /\ KeyColor = Corners[1]
  /\ KeyColor # CenterOf(BucketOf(KeyColor))

\* C8: histogram selection counts the pixels in 4096 buckets of 4 bits per
\* channel; a bucket qualifies iff it holds at least 5% of the pixels and the
\* circular hue distance of its center (quantized value * 16 + 8) to the
\* requested hue is at most tolerance / 255 * 120 degrees; the result is the
\* center of the qualifying bucket of smallest hue distance, of the higher
\* count among equals; there is no histogram result iff no bucket qualifies.
C8_HistogramRule ==
  Selected =>
    /\ debugInfo.selectionMethod = "histogram" =>
         \E b \in Buckets :
           /\ Qualifies(b)
           /\ KeyColor = CenterOf(b)
           /\ \A o \in Buckets :
                Qualifies(o) =>
                  /\ RatLeq(HueGap(CenterOf(b)), HueGap(CenterOf(o)))
                  /\ RatEq(HueGap(CenterOf(b)), HueGap(CenterOf(o)))
                       => CountIn(o) <= CountIn(b)
    /\ debugInfo.selectionMethod # "histogram" <=> ~\E b \in Buckets : Qualifies(b)

\* two qualifying buckets at the same hue distance and a third farther away:
\* the one of higher count is selected, the loop having met the other first
C8_Witness ==
  /\ pc = "selected" /\ debugInfo.selectionMethod = "histogram"
  /\ \E b, o \in Buckets :
       /\ Qualifies(b) /\ Qualifies(o) /\ KeyColor = CenterOf(b)
       /\ RatEq(HueGap(CenterOf(b)), HueGap(CenterOf(o)))
       /\ CountIn(o) < CountIn(b)
       /\ BinIndex(CenterOf(o)) < BinIndex(CenterOf(b))
  /\ \E f \in Buckets : ~ReachesArea(f)

\* the first corner among those of minimal hue distance to the requested hue
NearestCorner ==
  CHOOSE k \in 1..4 :
    /\ \A j \in 1..4 : RatLeq(HueGap(Corners[k]), HueGap(Corners[j]))
    /\ \A j \in 1..(k - 1) : RatLess(HueGap(Corners[k]), HueGap(Corners[j]))

\* C9: when no histogram bucket reaches 5% of the area, the selection returns
\* the corner pixel (of top-left, top-right, bottom-left, bottom-right) whose
\* hue has the minimal circular distance to the requested hue, the earlier
\* corner in that order on equal distances; so does every corner fallback.
C9_CornerFallback ==
  Selected =>
    /\ (\A b \in Buckets : ~ReachesArea(b)) => debugInfo.selectionMethod = "corner"
    /\ debugInfo.selectionMethod = "corner" => KeyColor = Corners[NearestCorner]

\* no bucket reaches 5%, the four corners differ in hue, the top-right and
\* the bottom-right corner are the nearest: the top-right one is returned
C9_Witness ==
  /\ pc = "selected"
  /\ \A b \in Buckets : ~ReachesArea(b)
  /\ \A j, k \in 1..4 :
       j # k => ~RatEq(rgbToHsv(Corners[j][1], Corners[j][2], Corners[j][3]),
                       rgbToHsv(Corners[k][1], Corners[k][2], Corners[k][3]))
  /\ RatEq(HueGap(Corners[2]), HueGap(Corners[4]))
  /\ RatLess(HueGap(Corners[2]), HueGap(Corners[1]))
  /\ RatLess(HueGap(Corners[2]), HueGap(Corners[3]))
  /\ KeyColor = Corners[2]

\* the speckle cleanup has just run on stageInput
AfterSpeckle == TransparencyEnabled /\ pc = "transparent"

\* the pixels around pixel i, when all eight of them are in the image
Ring(i) ==
  LET w == inputBuffer.width
      h == inputBuffer.height
      x == XOf(i, w)
      y == YOf(i, w)
  IN  IF x >= 1 /\ x <= w - 2 /\ y >= 1 /\ y <= h - 2
        THEN {At(x + d[1], y + d[2], w) : d \in Offsets8}
        ELSE {}

\* C10: in the speckle cleanup (4.6) an opaque key-colored pixel whose 8
\* neighbors are all transparent becomes transparent, and the center of a solid
\* 3x3 opaque block of that color stays opaque: it has 0 transparent neighbors.
C10_SpeckleRule ==
  AfterSpeckle =>
    \A i \in DOMAIN pixels :
      (stageInput[i] = Opaque(KeyColor) /\ Cardinality(Ring(i)) = 8) =>
        /\ (\A j \in Ring(i) : stageInput[j][4] = 0) => pixels[i][4] = 0
        /\ (\A j \in Ring(i) : stageInput[j] = Opaque(KeyColor)) => pixels[i] = stageInput[i]

\* an opaque key-colored pixel in a ring of eight transparent ones: cleared
C10_Witness ==
  /\ AfterSpeckle
  /\ \E i \in DOMAIN pixels :
       /\ stageInput[i] = Opaque(KeyColor) /\ Cardinality(Ring(i)) = 8
       /\ \A j \in Ring(i) : stageInput[j][4] = 0
       /\ pixels[i] = WithAlpha(KeyColor, 0)

\* the center of a solid 3x3 opaque block of the key color: kept
C10_BlockKept ==
  /\ AfterSpeckle
  /\ \E i \in DOMAIN pixels :
       /\ stageInput[i] = Opaque(KeyColor) /\ Cardinality(Ring(i)) = 8
       /\ \A j \in Ring(i) : stageInput[j] = Opaque(KeyColor)
       /\ pixels[i] = Opaque(KeyColor)

\* the run of the end-to-end example: the disk image, requested key #FF00FF,
\* tolerance 30, fringe mode auto, target size 64x64
DiskRun ==
  /\ inputBuffer = DiskImage
  /\ options.transparentColor = Hex(MagentaHex) /\ Tolerance = 30
  /\ options.fringeMode = "auto" /\ options.width = 64 /\ options.height = 64

\* a channel value within 5% of full scale of another
Within5Percent(v, w) == 100 * Abs(v - w) < 5 * 255

\* C11: end to end, for a square image with uniform magenta background and a
\* central opaque red disk, requested key #FF00FF, tolerance 30, fringe mode auto
\* and target size 64x64: after the whole pipeline every background pixel has
\* alpha 0, every disk pixel is still opaque with each color channel shifted by
\* less than 5%, and the fringe mode resolves to crisp, so that no 1-pixel
\* boundary clear happens.
C11_EndToEndDisk ==
  (DiskRun /\ pc = "done") =>
    /\ resolvedMode = "crisp"
    /\ \A k \in 1..Len(stages) : stages[k] # "hdclear"
    /\ \A i \in DOMAIN pixels :
         IF InputPixels[i] = Opaque(Magenta)
           THEN pixels[i][4] = 0
           ELSE /\ pixels[i][4] = 255
                /\ \A ch \in 1..3 : Within5Percent(pixels[i][ch], InputPixels[i][ch])

\* what the run does: crisp, no boundary clear, the background cleared, the
\* disk opaque, its inner pixels unchanged, and the pixels of its rim, those
\* next to a background pixel, darkened from (255,0,0) to (153,0,0)
C11_RimDarkened ==
  /\ DiskRun /\ pc = "done" /\ resolvedMode = "crisp"
  /\ \A k \in 1..Len(stages) : stages[k] # "hdclear"
  /\ \A i \in DOMAIN pixels :
       IF InputPixels[i] = Opaque(Magenta) THEN pixels[i] = WithAlpha(Magenta, 0)
       ELSE IF hasTransparentNeighbour(pixels, XOf(i, DiskSize), YOf(i, DiskSize),
                 DiskSize, DiskSize)
         THEN pixels[i] = <<153, 0, 0, 255>>
       ELSE pixels[i] = Opaque(Red)
  /\ \E i \in DOMAIN pixels : pixels[i] = Opaque(Red)
  /\ \E i \in DOMAIN pixels : pixels[i] = <<153, 0, 0, 255>>

\* the fringe mode has been resolved
Resolved == resolvedMode # "none"

\* C12: fringe mode resolution: an explicit crisp or hd mode is returned
\* unchanged; auto resolves to hd iff max(target output width, target output
\* height) > 128 and to crisp otherwise, so exactly 128 gives crisp; the resolved
\* mode is always crisp or hd and depends on the requested output size, not on
\* the size of the source image.
C12_FringeModeResolution ==
  Resolved =>
    /\ resolvedMode \in {"crisp", "hd"}
    /\ options.fringeMode \in {"crisp", "hd"} => resolvedMode = options.fringeMode
    /\ options.fringeMode = "auto" =>
         (resolvedMode = "hd" <=> (options.width > 128 \/ options.height > 128))

\* auto with a target of exactly 128x128 on a 1x1 source image: crisp
C12_Witness ==
  /\ pc = "done" /\ options.fringeMode = "auto"
  /\ options.width = 128 /\ options.height = 128
  /\ inputBuffer.width = 1 /\ inputBuffer.height = 1
  /\ resolvedMode = "crisp"

\* auto with a target higher than 128 and no wider than 64, on the same small
\* source image: hd; and explicit crisp with a target wider than 128: crisp
C12_TallTargetIsHd ==
  /\ pc = "done" /\ options.fringeMode = "auto"
  /\ options.width = 64 /\ options.height = 129
  /\ inputBuffer.width = 1 /\ inputBuffer.height = 1
  /\ resolvedMode = "hd"

\* pixels i and j are different pixels of the image, next to each other in a
\* row, a column or a diagonal
Adjacent(i, j) ==
  /\ i # j
  /\ Abs(XOf(i, inputBuffer.width) - XOf(j, inputBuffer.width)) <= 1
  /\ Abs(YOf(i, inputBuffer.width) - YOf(j, inputBuffer.width)) <= 1

\* pixel i had a transparent neighbor when the stage started
NextToTransparent(i) ==
  \E j \in DOMAIN stageInput : Adjacent(i, j) /\ stageInput[j][4] = 0

\* C18: in hd mode the boundary clear (4.3) sets alpha to 0 for exactly those
\* pixels that were non-transparent at the start of the stage and have at least
\* one in-image 8-neighbor that was transparent at the start of the stage; a
\* pixel whose in-image 8-neighbors were all non-transparent at the start keeps
\* its alpha, so transparency grows by at most one ring of pixels (no cascade);
\* in crisp mode the stage changes nothing: it does not run.
C18_HdClearOneRing ==
  /\ pc = "cleared" =>
       /\ resolvedMode = "hd"
       /\ \A i \in DOMAIN pixels :
            /\ Rgb(pixels[i]) = Rgb(stageInput[i])
            /\ pixels[i][4] =
                 IF stageInput[i][4] # 0 /\ NextToTransparent(i) THEN 0
                 ELSE stageInput[i][4]
  /\ (Resolved /\ resolvedMode = "crisp") =>
       /\ pc # "cleared"
       /\ \A k \in 1..Len(stages) : stages[k] # "hdclear"

\* a row of three: a transparent pixel, an opaque one that is cleared, and an
\* opaque one next to the cleared pixel that keeps its alpha
C18_Witness ==
  /\ pc = "cleared" /\ inputBuffer.width = 3 /\ inputBuffer.height = 1
  /\ stageInput[1][4] = 0 /\ stageInput[2][4] = 255 /\ stageInput[3][4] = 255
  /\ pixels[1][4] = 0 /\ pixels[2][4] = 0 /\ pixels[3][4] = 255

\* the hue of the selected key color and of the requested color, in degrees
KeyHue == rgbToHsv(KeyColor[1], KeyColor[2], KeyColor[3])

\* lo <= h <= hi for a rational hue h and whole degrees lo, hi
HueIn(h, lo, hi) == lo * h[2] <= h[1] /\ h[1] <= hi * h[2]

\* the keying sweep has run: the family is set
Keyed == TransparencyEnabled /\ pc \notin {"start", "selected"}

\* every pass that has just run gave what it gives with the family `family`
PassesUse(family) ==
  /\ pc = "keyed" => pixels = KeyingSweep(stageInput, KeyColor, Tolerance, family)
  /\ pc = "despilledA" =>
       pixels = BoundaryDespillPass(Interleave(stageInput), inputBuffer.width,
                  inputBuffer.height, family, resolvedMode)
  /\ pc = "despilledB" =>
       pixels = AlphaWeightedDespillPass(stageInput, family, resolvedMode)

\* C20 as stated: the despill family is a total function of the hue h of the
\* selected key color: magenta for h in [270,360] or [0,30], green for h in
\* [90,150], blue for h in [210,270], generic for every other hue; it is derived
\* once per run from the selected (not the requested) key color, and the
\* primary, boundary and alpha-weighted passes all use that same family.
C20_FamilyAsStated ==
  Keyed =>
    /\ (HueIn(KeyHue, 270, 360) \/ HueIn(KeyHue, 0, 30)) => despillKind = "magenta"
    /\ HueIn(KeyHue, 90, 150) => despillKind = "green"
    /\ HueIn(KeyHue, 210, 270) => despillKind = "blue"
    /\ ~(HueIn(KeyHue, 270, 360) \/ HueIn(KeyHue, 0, 30) \/ HueIn(KeyHue, 90, 150)
          \/ HueIn(KeyHue, 210, 270)) => despillKind = "generic"
    /\ PassesUse(despillKind)

\* the family of a hue, the hue 270 belonging to magenta
FamilyOfHue(h) ==
  IF HueIn(h, 270, 360) \/ HueIn(h, 0, 30) THEN "magenta"
  ELSE IF HueIn(h, 90, 150) THEN "green"
  ELSE IF HueIn(h, 210, 270) THEN "blue"
  ELSE "generic"

\* C20, amended: the despill family is a total function of the hue h of the
\* selected key color: magenta for h in [270,360] or [0,30], green for h in
\* [90,150], blue for h in [210,270), generic for every other hue; it is derived
\* once per run from the selected (not the requested) key color, and the
\* primary, boundary and alpha-weighted passes all use that same family.
C20_FamilyOfSelectedKey ==
  Keyed =>
    /\ despillKind = FamilyOfHue(KeyHue)
    /\ HueIn(KeyHue, 210, 270) /\ ~HueIn(KeyHue, 270, 270) => despillKind = "blue"
    /\ PassesUse(FamilyOfHue(KeyHue))

\* a key of hue exactly 270 selected where cyan, of the generic family, was
\* requested: the family is magenta, and the keying sweep has lowered
\* R and B of the second pixel toward G, which the formula of blue does not do
C20_Witness ==
  /\ pc = "keyed" /\ KeyColor = <<127, 0, 254>> /\ HueIn(KeyHue, 270, 270)
  /\ FamilyOfHue(RequestedHue) = "generic"
  /\ despillKind = "magenta"
  /\ stageInput[2] = Opaque(<<100, 0, 200>>)
  /\ pixels[2][1] < 100 /\ pixels[2][3] < 200
  /\ pixels # KeyingSweep(stageInput, KeyColor, Tolerance, "blue")

\* a selected key of family magenta where the requested color is green
C20_SelectedNotRequested ==
  /\ pc = "keyed" /\ FamilyOfHue(RequestedHue) = "green" /\ despillKind = "magenta"
  /\ pixels # KeyingSweep(stageInput, KeyColor, Tolerance, "green")

\* The constants of the correction of a green and of a generic key: the least
\* green excess G - max(R,B) above which R and B are lowered as well (thr), the
\* factor of that reduction (coef), and the fraction of the way a channel is
\* moved toward its reference value under a generic key (frac).
PrimaryConstants == [thr |-> 10, coef |-> <<3, 10>>, frac |-> <<1, 2>>]

LaterConstants == [thr |-> 8, coef |-> <<35, 100>>, frac |-> <<6, 10>>]

\* the correction of the keying sweep with constants k, for a pixel of the
\* despill zone at squared distance n from the key
PrimaryFormula(p, n, kind, k) ==
  LET r == p[1]
      g == p[2]
      b == p[3]
      e == Max2(0, g - Max2(r, b))
      grey == RoundDiv(r + g + b, 3)
  IN  IF kind = "green"
        THEN <<IF e > k.thr
                 THEN Max2(0, SpillRound(r, -(k.coef[1] * e), k.coef[2], n, Tolerance))
                 ELSE r,
               SpillRound(g, -e, 1, n, Tolerance),
               IF e > k.thr
                 THEN Max2(0, SpillRound(b, -(k.coef[1] * e), k.coef[2], n, Tolerance))
                 ELSE b>>
        ELSE <<SpillRound(r, k.frac[1] * (grey - r), k.frac[2], n, Tolerance),
               SpillRound(g, k.frac[1] * (grey - g), k.frac[2], n, Tolerance),
               SpillRound(b, k.frac[1] * (grey - b), k.frac[2], n, Tolerance)>>

\* the correction of the boundary despill with constants k: strength forceBase,
\* reference the local median med, then the median blend (green key)
BoundaryFormula(p, med, kind, mode, k) ==
  LET r == p[1]
      g == p[2]
      b == p[3]
      e == Max2(0, g - Max2(r, b))
      force == ForceBase(mode)
  IN  IF kind = "green"
        THEN BlendColor(
               <<IF e > k.thr THEN ForceSub(r, e, force, k.coef[1], k.coef[2]) ELSE r,
                 ForceSub(g, e, force, 1, 1),
                 IF e > k.thr THEN ForceSub(b, e, force, k.coef[1], k.coef[2]) ELSE b>>,
               med, MedianBlend(mode))
        ELSE <<ForceSub(r, r - med[1], force, k.frac[1], k.frac[2]),
               ForceSub(g, g - med[2], force, k.frac[1], k.frac[2]),
               ForceSub(b, b - med[3], force, k.frac[1], k.frac[2])>>

\* the correction of the alpha-weighted despill with constants k and strength s
AlphaFormula(p, s, kind, k) ==
  LET r == p[1]
      g == p[2]
      b == p[3]
      e == Max2(0, g - Max2(r, b))
      grey == RoundDiv(r + g + b, 3)
  IN  IF kind = "green"
        THEN <<IF e > k.thr THEN StrengthSub(r, e, s, k.coef[1], k.coef[2]) ELSE r,
               StrengthSub(g, e, s, 1, 1),
               IF e > k.thr THEN StrengthSub(b, e, s, k.coef[1], k.coef[2]) ELSE b>>
        ELSE <<StrengthSub(r, r - grey, s, k.frac[1], k.frac[2]),
               StrengthSub(g, g - grey, s, k.frac[1], k.frac[2]),
               StrengthSub(b, b - grey, s, k.frac[1], k.frac[2])>>

\* pixel i is in the despill zone of the keying sweep
InDespillZone(i) ==
  LET n == Dist2(stageInput[i], KeyColor)
  IN  n > 2 * Tolerance * Tolerance /\ 100 * n <= 648 * Tolerance * Tolerance

\* pixel i is one the boundary despill works on, and the only such pixel of
\* its 3x3 window
LoneBoundaryPixel(i) ==
  /\ stageInput[i][4] # 0 /\ NextToTransparent(i)
  /\ \A j \in DOMAIN stageInput :
       Adjacent(i, j) => (stageInput[j][4] = 0 \/ ~NextToTransparent(j))

\* every pass that has just run, under a green or a generic key, gave the
\* correction with these constants: kp in the keying sweep, kl in the later passes
PassesApply(kp, kl) ==
  (Keyed /\ despillKind \in {"green", "generic"}) =>
    /\ pc = "keyed" =>
         \A i \in DOMAIN pixels :
           InDespillZone(i) =>
             LET c == PrimaryFormula(stageInput[i], Dist2(stageInput[i], KeyColor),
                        despillKind, kp)
             IN  pixels[i] = <<Clamp255(c[1]), Clamp255(c[2]), Clamp255(c[3]),
                               stageInput[i][4]>>
    /\ pc = "despilledA" =>
         \A i \in DOMAIN pixels :
           LoneBoundaryPixel(i) =>
             Rgb(pixels[i]) =
               BoundaryFormula(stageInput[i],
                 WindowMedian(stageInput, XOf(i, inputBuffer.width),
                   YOf(i, inputBuffer.width), inputBuffer.width, inputBuffer.height),
                 despillKind, resolvedMode, kl)
    /\ pc = "despilledB" =>
         \A i \in DOMAIN pixels :
           (stageInput[i][4] # 0 /\ stageInput[i][4] # 255) =>
             Rgb(pixels[i]) =
               AlphaFormula(stageInput[i], AlphaStrength(stageInput[i][4], resolvedMode),
                 despillKind, kl)

C19_BoundaryLowersAtNine ==
  /\ pc = "despilledA" /\ resolvedMode = "crisp" /\ despillKind = "green"
  /\ \E i \in DOMAIN pixels :
       /\ LoneBoundaryPixel(i) /\ stageInput[i] = Opaque(<<100, 109, 100>>)
       /\ pixels[i][1] < 100 /\ pixels[i][3] < 100

\* the keying sweep under a green key has left R and B of a pixel of the
\* despill zone with green excess 9, and lowered those of one with excess 11
C19_PrimaryKeepsAtNine ==
  /\ pc = "keyed" /\ despillKind = "green"
  /\ \E i \in DOMAIN pixels :
       /\ InDespillZone(i)
       /\ \/ /\ Rgb(stageInput[i]) = <<130, 139, 130>>
             /\ pixels[i][1] = 130 /\ pixels[i][3] = 130 /\ pixels[i][2] < 139
          \/ /\ Rgb(stageInput[i]) = <<128, 139, 128>>
             /\ pixels[i][1] < 128 /\ pixels[i][3] < 128

\* ------------------------------------------------------------------------
\* generate_image: what a call returns and writes
\* ------------------------------------------------------------------------

Returned == epc = "returned"

\* the result object of the reply: the JSON of its text content
ResultOf == reply.content[1].text

Succeeded == Returned /\ ResultOf.success

Failed == Returned /\ ~ResultOf.success

ImageItems == {i \in 1..Len(reply.content) : reply.content[i].type = "image"}

\* the files written as the output of a call
OutputFiles == {p \in DOMAIN files : files[p].kind = "output"}

\* C13: a successful call has a filePath exactly when outputType is file or
\* combine, and base64 data with an image content item exactly when outputType
\* is base64 or combine; a base64-only call never writes an output file.
C13_OutputTypes ==
  /\ Succeeded =>
       /\ ("filePath" \in DOMAIN ResultOf) <=> (args.outputType \in {"file", "combine"})
       /\ ("base64" \in DOMAIN ResultOf) <=> (args.outputType \in {"base64", "combine"})
       /\ (ImageItems # {}) <=> (args.outputType \in {"base64", "combine"})
       /\ \A i \in ImageItems :
            /\ reply.content[i].data = ResultOf.base64
            /\ reply.content[i].data = <<"base64", processedBuffer>>
       /\ "filePath" \in DOMAIN ResultOf =>
            /\ ResultOf.filePath \in OutputFiles
            /\ files[ResultOf.filePath].buffer = processedBuffer
  /\ epc # "idle" /\ args.outputType = "base64" => OutputFiles = {}

\* a combine call that returned the path of the file it wrote and the image
C13_Witness ==
  /\ Succeeded
  /\ args.outputType = "combine"
  /\ ResultOf.filePath \in OutputFiles
  /\ ImageItems = {2}

\* a debug call that returned base64 only left its raw image on disk
C13_DebugFileOfBase64Call ==
  /\ Succeeded
  /\ args.outputType = "base64"
  /\ \E p \in DOMAIN files : files[p].kind = "debug"

\* a call with transparent = true and output_format = jpg
TransparentJpg == epc # "idle" /\ args.transparent /\ args.output_format = "jpg"

\* the request has been sent to the API
RequestSent == epc \in {"debug", "postProcess", "postProcessing", "returned"}
                 /\ DOMAIN geminiRequest # {}

\* an error was thrown and caught
ErrorsCaught ==
  {i \in 1..Len(log) : log[i].level = "error"
                         /\ log[i].message = "Image generation failed"}

RelativePathCall ==
  /\ epc # "idle"
  /\ args.outputType \in {"file", "combine"}
  /\ args.outputPath # <<>>
  /\ ~isAbsolute(args.outputPath)

\* the files written since the call began
WrittenFiles == {p \in DOMAIN files : files[p].kind # "old"}

\* C15: a call with outputType file or combine and an outputPath that is not
\* absolute returns success = false with a message containing 'outputPath must
\* be an absolute path', and writes no file.
C15_RelativePathRejected ==
  RelativePathCall /\ Returned =>
    /\ ~ResultOf.success
    /\ Includes(ResultOf.message,
                <<"outputPath", "must", "be", "an", "absolute", "path">>)
    /\ WrittenFiles = {}

\* the part of C15 that holds: such a call never succeeds and never writes
C15_NeverSavedNorSuccessful ==
  RelativePathCall => WrittenFiles = {} /\ ~Succeeded

\* the rejection as the claim has it: it comes after the API call and postProcess
C15_Witness ==
  /\ RelativePathCall
  /\ Failed
  /\ ResultOf.message = AbsolutePathMessage
  /\ RequestSent
  /\ pc = "done"
  /\ WrittenFiles = {}

\* the API call fails before the path is looked at: another message
C15_GenerationFailsFirst ==
  /\ RelativePathCall
  /\ Failed
  /\ ~args.debug
  /\ ResultOf.message = RateLimitMessage

\* debug mode rejects the path with its own message
C15_DebugMessage ==
  /\ RelativePathCall
  /\ Failed
  /\ args.debug
  /\ ResultOf.message = DebugPathMessage
  /\ ~Includes(ResultOf.message,
               <<"outputPath", "must", "be", "an", "absolute", "path">>)

\* the write of the output file to the requested path failed
RequestedWriteFailed ==
  \E i \in 1..Len(log) : log[i].message = "Failed to write to requested outputPath"

\* the write of the output file to the fallback directory failed
FallbackWriteFailed ==
  \E i \in 1..Len(log) : log[i].message = "Fallback write failed"

\* MCP_FALLBACK_OUTPUT, or <install-dir>/fallback-output
FallbackDirectory ==
  IF env.MCP_FALLBACK_OUTPUT = <<>> THEN <<"/", "install-dir", "fallback-output">>
  ELSE env.MCP_FALLBACK_OUTPUT

\* the file of the call's name in the fallback directory
SameNameInFallback == [dir |-> FallbackDirectory, name |-> fileName(args)]

\* the outcome of a call whose write to the requested path failed
FallbackOutcome ==
  Returned /\ RequestedWriteFailed =>
    \/ /\ Succeeded
       /\ ~FallbackWriteFailed
       /\ ResultOf.filePath.dir = FallbackDirectory
       /\ ResultOf.filePath \in DOMAIN files
       /\ files[ResultOf.filePath] = File("output", processedBuffer)
       /\ \A p \in OutputFiles : p.dir = FallbackDirectory
       /\ "warning" \in DOMAIN ResultOf
       /\ Includes(ResultOf.warning, <<"Requested", "path", "not", "writable">>)
    \/ /\ Failed
       /\ FallbackWriteFailed
       /\ OutputFiles = {}

\* a step that writes never replaces the file of the call's name in the
\* fallback directory: if that file exists, the stamped name is written
SameNameKept ==
  /\ epc # "idle"
  /\ SameNameInFallback \in DOMAIN files
  => /\ SameNameInFallback \in DOMAIN files'
     /\ files'[SameNameInFallback] = files[SameNameInFallback]
     /\ \A p \in OutputFiles' :
          p.dir = FallbackDirectory => p.name = Stamped(fileName(args))

C16_BothWritesFailed ==
  /\ Failed
  /\ RequestedWriteFailed
  /\ FallbackWriteFailed
  /\ Includes(ResultOf.message, <<"Generation", "failed", ":", "Failed", "to", "write">>)

\* the text of the error that was caught
CaughtError == log[CHOOSE i \in ErrorsCaught : TRUE].error

\* the text contains '429' or, in any case of letters, 'rate limit'
SaysRateLimit(e) ==
  \/ \E i \in 1..Len(e) : e[i] = "429"
  \/ \E i \in 1..(Len(e) - 1) :
       /\ e[i] \in {"rate", "Rate", "RATE"}
       /\ e[i + 1] \in {"limit", "Limit", "LIMIT"}

\* the text contains 'No image in response'
SaysNoImage(e) ==
  \E i \in 0..(Len(e) - 4) :
    e[i + 1] = "No" /\ e[i + 2] = "image" /\ e[i + 3] = "in" /\ e[i + 4] = "response"

\* every error thrown inside execute is caught and returned, and every failed
\* call returns one text content with success = false, width 0, height 0 and
\* an empty format
FailuresReturned ==
  /\ ErrorsCaught # {} => Failed /\ Cardinality(ErrorsCaught) = 1
  /\ Returned => DOMAIN reply = {"content"} /\ Len(reply.content) \in {1, 2}
  /\ Failed =>
       /\ Len(reply.content) = 1
       /\ reply.content[1].type = "text"
       /\ ResultOf.width = 0
       /\ ResultOf.height = 0
       /\ ResultOf.format = ""
       /\ DOMAIN ResultOf = {"success", "message", "width", "height", "format"}

C17_AnyCase ==
  /\ ErrorsCaught # {}
  /\ Includes(CaughtError, <<"Rate", "Limit", "reached">>)
  /\ ~Includes(CaughtError, <<"429">>)
  /\ ResultOf.message = RateLimitMessage

\* the API answered without an image
C17_NoImage ==
  /\ ErrorsCaught # {}
  /\ CaughtError = NoImageError
  /\ ResultOf.message = NoImageMessage

\* the other failures: no API key, an unreadable reference image, a buffer
\* postProcess cannot decode, two failed writes
C17_GenerationFailed ==
  /\ ErrorsCaught # {}
  /\ CaughtError = UnsupportedImageError
  /\ ResultOf.message = <<"Generation", "failed", ":", "Input", "buffer", "contains",
                           "unsupported", "image", "format">>

\* ------------------------------------------------------------------------
\* Mode parameters of the correction passes
\* ------------------------------------------------------------------------

\* the parameters the correction passes are said to use in each fringe mode;
\* alphaPower in tenths
StatedParameters ==
  [crisp |-> [forceBase |-> <<4, 10>>, medianBlend |-> <<0, 100>>,
              alphaCoef |-> <<0, 10>>, alphaPower |-> 18],
   hd    |-> [forceBase |-> <<11, 10>>, medianBlend |-> <<20, 100>>,
              alphaCoef |-> <<14, 10>>, alphaPower |-> 20],
   auto  |-> [forceBase |-> <<10, 10>>, medianBlend |-> <<15, 100>>,
              alphaCoef |-> <<12, 10>>, alphaPower |-> 18]]

\* the color the boundary despill gives a boundary pixel p with local medians
\* med under strength force and median blend weight blend
BoundaryWith(p, med, kind, force, blend) ==
  LET r == p[1]
      g == p[2]
      b == p[3]
      e == Max2(0, g - Max2(r, b))
  IN  IF kind = "magenta"
        THEN BlendColor(<<ForceSub(r, Max2(0, r - med[2]), force, 1, 1), g,
                          ForceSub(b, Max2(0, b - med[2]), force, 1, 1)>>, med, blend)
      ELSE IF kind = "green"
        THEN BlendColor(
               <<IF e > 8 THEN ForceSub(r, e, force, 35, 100) ELSE r,
                 ForceSub(g, e, force, 1, 1),
                 IF e > 8 THEN ForceSub(b, e, force, 35, 100) ELSE b>>, med, blend)
      ELSE IF kind = "blue"
        THEN BlendColor(<<r, g, ForceSub(b, Max2(0, b - Max2(med[1], med[2])),
                                     force, 1, 1)>>, med, blend)
      ELSE <<ForceSub(r, r - med[1], force, 6, 10),
             ForceSub(g, g - med[2], force, 6, 10),
             ForceSub(b, b - med[3], force, 6, 10)>>

\* the color the alpha-weighted despill gives a pixel p under strength s
AlphaWith(p, kind, s) ==
  LET r == p[1]
      g == p[2]
      b == p[3]
      e == Max2(0, g - Max2(r, b))
      grey == RoundDiv(r + g + b, 3)
  IN  IF kind = "magenta"
        THEN <<StrengthSub(r, Max2(0, r - g), s, 1, 1), g,
               StrengthSub(b, Max2(0, b - g), s, 1, 1)>>
      ELSE IF kind = "green"
        THEN <<IF e > 8 THEN StrengthSub(r, e, s, 7, 20) ELSE r,
               StrengthSub(g, e, s, 1, 1),
               IF e > 8 THEN StrengthSub(b, e, s, 7, 20) ELSE b>>
      ELSE IF kind = "blue"
        THEN <<r, g, StrengthSub(b, Max2(0, b - Max2(r, g)), s, 1, 1)>>
      ELSE <<StrengthSub(r, r - grey, s, 3, 5), StrengthSub(g, g - grey, s, 3, 5),
             StrengthSub(b, b - grey, s, 3, 5)>>

\* (1 - alpha / 255)^2 * coef as a rational: the strength of the alpha-weighted
\* despill when alphaPower is 2.0, and for every alphaPower when coef is 0
StrengthWith(alpha, coef) ==
  <<coef[1] * (255 - alpha) * (255 - alpha), coef[2] * 65025>>

\* the boundary despill and the alpha-weighted despill, where they have just
\* run, gave the corrections with the parameters par; the alpha-weighted pass
\* is compared where its strength is a rational (alphaPower 2.0, or alphaCoef 0)
ParametersApply(par) ==
  Keyed =>
    /\ pc = "despilledA" =>
         \A i \in DOMAIN pixels :
           LoneBoundaryPixel(i) =>
             Rgb(pixels[i]) =
               BoundaryWith(stageInput[i],
                 WindowMedian(stageInput, XOf(i, inputBuffer.width),
                   YOf(i, inputBuffer.width), inputBuffer.width, inputBuffer.height),
                 despillKind, par.forceBase, par.medianBlend)
    /\ (pc = "despilledB" /\ (par.alphaPower = 20 \/ par.alphaCoef[1] = 0)) =>
         \A i \in DOMAIN pixels :
           (stageInput[i][4] # 0 /\ stageInput[i][4] # 255) =>
             Rgb(pixels[i]) =
               AlphaWith(stageInput[i], despillKind,
                 StrengthWith(stageInput[i][4], par.alphaCoef))

\* C21 as stated: the boundary despill uses forceBase 0.4 in crisp mode, 1.1
\* in hd mode and 1.0 in default/auto mode, with median blend weight 0.0, 0.2
\* and 0.15 respectively, and the alpha-weighted pass uses alphaCoef 0.0, 1.4
\* and 1.2 with alphaPower 2.0 in hd and 1.8 otherwise: a call with fringe
\* mode m is corrected with the parameters listed for m.
C21_ParametersOfRequestedMode == ParametersApply(StatedParameters[options.fringeMode])

\* C21, amended: the passes run in the resolved fringe mode, which is crisp or
\* hd and never auto: forceBase 0.4, median blend 0.0 and alphaCoef 0.0 in
\* crisp mode, forceBase 1.1, median blend 0.2, alphaCoef 1.4 and alphaPower
\* 2.0 in hd mode; a call with fringe mode auto is corrected with the
\* parameters of crisp or of hd, and the values 1.0, 0.15 and 1.2 are not used.
C21_ParametersOfResolvedMode ==
  (Keyed /\ pc # "keyed") =>
    /\ resolvedMode \in {"crisp", "hd"}
    /\ ParametersApply(StatedParameters[resolvedMode])

\* fringe mode auto with a target of 129x64, resolved to hd: the boundary
\* despill has taken the opaque pixel (200,60,180) next to a cleared pixel of
\* the same color to (77,60,74), the result of strength 1.1 and median blend 0.2
C21_Witness ==
  /\ pc = "despilledA" /\ options.fringeMode = "auto" /\ resolvedMode = "hd"
  /\ \E i \in DOMAIN pixels :
       /\ LoneBoundaryPixel(i) /\ stageInput[i] = Opaque(<<200, 60, 180>>)
       /\ pixels[i] = Opaque(<<77, 60, 74>>)

\* fringe mode auto with a target of 64x64, resolved to crisp: the boundary
\* despill has taken the same pixel to (144,60,132), the result of strength 0.4
\* without median blend
C21_AutoAsCrisp ==
  /\ pc = "despilledA" /\ options.fringeMode = "auto" /\ resolvedMode = "crisp"
  /\ \E i \in DOMAIN pixels :
       /\ LoneBoundaryPixel(i) /\ stageInput[i] = Opaque(<<200, 60, 180>>)
       /\ pixels[i] = Opaque(<<144, 60, 132>>)

\* ------------------------------------------------------------------------
\* Median blend of the boundary despill
\* ------------------------------------------------------------------------

\* the local medians the boundary despill uses for pixel i
MedianAt(i) ==
  WindowMedian(stageInput, XOf(i, inputBuffer.width), YOf(i, inputBuffer.width),
               inputBuffer.width, inputBuffer.height)

\* the correction of the family of the key alone, without median blend
FamilyCorrected(i) ==
  BoundaryWith(stageInput[i], MedianAt(i), despillKind,
               StatedParameters[resolvedMode].forceBase, <<0, 100>>)

\* each channel of c taken the fraction weight of the way toward med
BlendedToward(c, med, weight) ==
  [k \in 1..3 |-> RoundDiv(c[k] * (weight[2] - weight[1]) + med[k] * weight[1],
                           weight[2])]

\* the channels the family formula corrects for pixel p
CorrectedChannels(p, kind) ==
  IF kind = "magenta" THEN {1, 3}
  ELSE IF kind = "green"
    THEN IF p[2] - Max2(p[1], p[3]) > 8 THEN {1, 2, 3} ELSE {2}
  ELSE IF kind = "blue" THEN {3}
  ELSE {1, 2, 3}

\* in crisp mode a boundary pixel has the color of the family formula, and
\* the channels the formula does not correct are the input's
CrispUnblended ==
  \A i \in DOMAIN pixels :
    LoneBoundaryPixel(i) =>
      /\ Rgb(pixels[i]) = FamilyCorrected(i)
      /\ \A k \in (1..3) \ CorrectedChannels(stageInput[i], despillKind) :
           pixels[i][k] = stageInput[i][k]

\* C22 as stated: in the boundary despill pass, whenever the median blend
\* weight is greater than 0 (hd mode), the corrected R, G and B of every
\* boundary pixel are blended toward the 3x3 neighborhood median by that
\* weight, for every despill family (magenta, green, blue and generic); in
\* crisp mode no blending happens, so a channel that the family formula does
\* not correct keeps its value.
C22_BlendInEveryFamily ==
  (Keyed /\ pc = "despilledA") =>
    IF resolvedMode = "hd"
      THEN \A i \in DOMAIN pixels :
             LoneBoundaryPixel(i) =>
               Rgb(pixels[i]) = BlendedToward(FamilyCorrected(i), MedianAt(i), <<20, 100>>)
      ELSE CrispUnblended

\* C22, amended: in hd mode the corrected R, G and B of a boundary pixel are
\* blended toward the neighborhood median by the weight 0.2 under a magenta,
\* green or blue key; under a generic key the pixel is moved toward the median
\* by forceBase * 0.6 and is not blended; in crisp mode no blending happens, so
\* a channel that the family formula does not correct keeps its value.
C22_BlendButForGeneric ==
  (Keyed /\ pc = "despilledA") =>
    IF resolvedMode = "hd"
      THEN \A i \in DOMAIN pixels :
             LoneBoundaryPixel(i) =>
               Rgb(pixels[i]) =
                 IF despillKind = "generic" THEN FamilyCorrected(i)
                 ELSE BlendedToward(FamilyCorrected(i), MedianAt(i), <<20, 100>>)
      ELSE CrispUnblended

\* hd mode, magenta key: the boundary despill has raised the green of the
\* opaque pixel (200,0,180), which the magenta formula does not correct, to 12,
\* a fifth of the way to the median 60
C22_Witness ==
  /\ pc = "despilledA" /\ resolvedMode = "hd" /\ despillKind = "magenta"
  /\ \E i \in DOMAIN pixels :
       /\ LoneBoundaryPixel(i) /\ stageInput[i] = Opaque(<<200, 0, 180>>)
       /\ MedianAt(i)[2] = 60
       /\ pixels[i][2] = 12

\* hd mode, generic key: the boundary despill has taken the green of the
\* opaque pixel (200,0,180) to 40, 0.66 of the way to the median 60, and not
\* on to 44
C22_GenericNotBlended ==
  /\ pc = "despilledA" /\ resolvedMode = "hd" /\ despillKind = "generic"
  /\ \E i \in DOMAIN pixels :
       /\ LoneBoundaryPixel(i) /\ stageInput[i] = Opaque(<<200, 0, 180>>)
       /\ MedianAt(i) = <<200, 60, 180>>
       /\ pixels[i] = Opaque(<<200, 40, 180>>)

\* crisp mode, magenta key: the boundary despill has lowered R and B of the
\* opaque pixel (200,60,180) and kept its green
C22_CrispKeepsGreen ==
  /\ pc = "despilledA" /\ resolvedMode = "crisp" /\ despillKind = "magenta"
  /\ \E i \in DOMAIN pixels :
       /\ LoneBoundaryPixel(i) /\ stageInput[i] = Opaque(<<200, 60, 180>>)
       /\ pixels[i] = Opaque(<<144, 60, 132>>)

\* ------------------------------------------------------------------------
\* Median window of the boundary despill
\* ------------------------------------------------------------------------

\* the element at position floor(n / 2) of the n samples in ascending order,
\* counting from 0: the value with at most floor(n / 2) samples below it and
\* more than floor(n / 2) samples at or below it
MedianOfSamples(samples) ==
  LET n == Cardinality(DOMAIN samples)
      Below(v) == Cardinality({s \in DOMAIN samples : samples[s] < v})
      UpTo(v) == Cardinality({s \in DOMAIN samples : samples[s] <= v})
  IN  CHOOSE v \in {samples[s] : s \in DOMAIN samples} :
        Below(v) <= n \div 2 /\ UpTo(v) > n \div 2

\* the pixel at (x, y) with the coordinates clamped to the image
ClampedAt(x, y) ==
  At(Max2(0, Min2(inputBuffer.width - 1, x)),
     Max2(0, Min2(inputBuffer.height - 1, y)), inputBuffer.width)

\* the samples of the 3x3 neighborhood of pixel i by offset, positions outside
\* the image replaced by the nearest pixel of the image: always 9 samples
ReplicatedSamples(i, k) ==
  [d \in (-1..1) \X (-1..1) |->
    stageInput[ClampedAt(XOf(i, inputBuffer.width) + d[1],
                         YOf(i, inputBuffer.width) + d[2])][k]]

\* the samples of the cells of the 3x3 neighborhood of pixel i that lie in
\* the image, pixel i included: 9 samples inside, 6 on a border, 4 in a
\* corner, 3 or 2 in an image of one row or column
InImageSamples(i, k) ==
  [j \in {j \in DOMAIN stageInput : j = i \/ Adjacent(i, j)} |-> stageInput[j][k]]

\* every boundary pixel got the correction computed with these medians
MedianUsed(med(_)) ==
  (Keyed /\ pc = "despilledA") =>
    \A i \in DOMAIN pixels :
      LoneBoundaryPixel(i) =>
        Rgb(pixels[i]) =
          BoundaryWith(stageInput[i], med(i), despillKind,
                       StatedParameters[resolvedMode].forceBase,
                       StatedParameters[resolvedMode].medianBlend)

ReplicatedMedian(i) == [k \in 1..3 |-> MedianOfSamples(ReplicatedSamples(i, k))]

InImageMedian(i) == [k \in 1..3 |-> MedianOfSamples(InImageSamples(i, k))]

\* C23 as stated: in the boundary despill pass the per-channel median for a
\* boundary pixel is taken over 9 samples of its 3x3 neighborhood, out-of-image
\* positions being replaced by the nearest in-image pixel (coordinates clamped
\* at the borders), so that border and corner pixels also use 9 samples.
C23_NineSamplesClamped == MedianUsed(ReplicatedMedian)

\* C23, amended: the per-channel median for a boundary pixel is taken over the
\* cells of its 3x3 neighborhood that lie inside the image (the loop bounds are
\* clamped, no position is replaced): 9 samples for an inner pixel, 6 on a
\* border, 4 in a corner; of n samples in ascending order the median is the one
\* at index floor(n / 2), the upper of the two middle samples when n is even.
C23_InImageSamples == MedianUsed(InImageMedian)

\* hd mode, magenta key, a row of three pixels: the last pixel (200,0,180) has
\* two samples, its own and that of its neighbor (200,60,180); the green median
\* is 60, the upper of the two, where nine samples would have given 0, and the
\* pixel became (77,12,74)
C23_Witness ==
  /\ pc = "despilledA" /\ resolvedMode = "hd" /\ despillKind = "magenta"
  /\ inputBuffer.width = 3 /\ inputBuffer.height = 1
  /\ LoneBoundaryPixel(3)
  /\ stageInput[2] = WithAlpha(<<200, 60, 180>>, 0)
  /\ stageInput[3] = Opaque(<<200, 0, 180>>)
  /\ InImageMedian(3)[2] = 60 /\ ReplicatedMedian(3)[2] = 0
  /\ pixels[3] = Opaque(<<77, 12, 74>>)

\* a boundary pixel inside the image, with all 9 samples
C23_InnerPixel ==
  /\ Keyed /\ pc = "despilledA"
  /\ \E i \in DOMAIN pixels :
       LoneBoundaryPixel(i) /\ Cardinality(DOMAIN InImageSamples(i, 1)) = 9

\* ------------------------------------------------------------------------
\* The alpha-weighted despill and binary alpha
\* ------------------------------------------------------------------------

\* every pixel of the input has alpha 0 or 255, or the input has no alpha channel
BinaryAlphaInput == \A i \in DOMAIN InputPixels : InputPixels[i][4] \in {0, 255}

C24_SemiTransparentChanged ==
  /\ pc = "despilledB" /\ resolvedMode = "hd"
  /\ \E i \in DOMAIN pixels :
       /\ stageInput[i][4] = 16 /\ pixels[i][4] = 16
       /\ Rgb(pixels[i]) # Rgb(stageInput[i])

\* ------------------------------------------------------------------------
\* The speckle cleanup decides from a snapshot
\* ------------------------------------------------------------------------

\* the number of the 8 neighbors of pixel i that are transparent when the
\* cleanup starts, the neighbors outside the image included
TransparentAround(i) ==
  8 - Cardinality({j \in DOMAIN stageInput : Adjacent(i, j) /\ stageInput[j][4] # 0})

\* the distance of the color of pixel i from the key, when the cleanup starts,
\* is within rgbThreshold * 2.0, or rgbThreshold * 3.0 in hd mode, where
\* rgbThreshold = colorTolerance * sqrt(2)
WithinExtendedThreshold(i) ==
  LET n == Dist2(stageInput[i], KeyColor)
      t2 == 2 * Tolerance * Tolerance
  IN  IF resolvedMode = "hd"
        THEN n < 9 * t2 \/ (n = 9 * t2 /\ ~HdCleanupRoundsDown(Tolerance))
        ELSE n <= 4 * t2

RoundedCorrection(v, e, s) == v + RoundDiv(-(s[1] * e), s[2])

\* C26: every color value written by a despill pass (primary, boundary
\* including the median blend, alpha-weighted) is an integer in 0..255 before
\* it is stored, for every input pixel, key color, tolerance and fringe mode:
\* a correction that leaves 0..255, as it can when the strength factor exceeds
\* 1 (hd: forceBase 1.1, alphaCoef 1.4), is stored as 0 or 255 and not as its
\* value modulo 256.
C26_StoredValuesInRange ==
  Keyed =>
    /\ \A i \in DOMAIN pixels : \A k \in 1..4 : pixels[i][k] \in 0..255
    /\ (pc = "despilledB" /\ despillKind = "magenta") =>
         \A i \in DOMAIN pixels :
           (stageInput[i][4] \notin {0, 255}) =>
             \A k \in {1, 3} :
               LET c == RoundedCorrection(stageInput[i][k],
                          Max2(0, stageInput[i][k] - stageInput[i][2]),
                          StrengthWith(stageInput[i][4],
                                       StatedParameters[resolvedMode].alphaCoef))
               IN  /\ c < 0 => pixels[i][k] = 0
                   /\ c > 255 => pixels[i][k] = 255
                   /\ c \in 0..255 => pixels[i][k] = c

\* hd mode, magenta key, a pixel of alpha 16: the strength of the
\* alpha-weighted despill is 1.4 * (239/255)^2 > 1, the corrected red of a
\* pixel without green is negative, and the pass has stored 0
C26_Witness ==
  /\ pc = "despilledB" /\ resolvedMode = "hd" /\ despillKind = "magenta"
  /\ \E i \in DOMAIN pixels :
       /\ stageInput[i][4] = 16 /\ stageInput[i][1] > 0 /\ stageInput[i][2] = 0
       /\ RoundedCorrection(stageInput[i][1], stageInput[i][1],
                            StrengthWith(16, <<14, 10>>)) < 0
       /\ pixels[i][1] = 0

\* hd mode, magenta key: the boundary despill with strength 1.1 has taken red
\* and blue of the opaque pixel (200,0,180), whose green median is 0, to 0
\* (from 200 - 220 and 180 - 198) and blended them with the median to 40 and 36
C26_BoundaryClamped ==
  /\ pc = "despilledA" /\ resolvedMode = "hd" /\ despillKind = "magenta"
  /\ \E i \in DOMAIN pixels :
       /\ LoneBoundaryPixel(i) /\ stageInput[i] = Opaque(<<200, 0, 180>>)
       /\ MedianAt(i) = <<200, 0, 180>>
       /\ pixels[i] = Opaque(<<40, 0, 36>>)

\* ------------------------------------------------------------------------
\* selectSourceResolutionSmart (gemini-client.ts)
\* ------------------------------------------------------------------------

\* the keys of SUPPORTED_ASPECT_RATIOS
AspectRatioKeys ==
  {"1:1", "1:4", "1:8", "2:3", "3:2", "3:4", "4:1", "4:3", "4:5", "5:4", "8:1",
   "9:16", "16:9", "21:9"}

\* ['0.5K', '1K', '2K', '4K']
SourceResolutions == <<"0.5K", "1K", "2K", "4K">>

\* table[aspectRatio]: the sizes [w, h] of the four resolutions, in that order
table(aspectRatio) ==
  CASE aspectRatio = "1:1" ->
         <<<<512, 512>>, <<1024, 1024>>, <<2048, 2048>>, <<4096, 4096>>>>
    [] aspectRatio = "1:4" ->
         <<<<256, 1024>>, <<512, 2048>>, <<1024, 4096>>, <<2048, 8192>>>>
    [] aspectRatio = "1:8" ->
         <<<<192, 1536>>, <<384, 3072>>, <<768, 6144>>, <<1536, 12288>>>>
    [] aspectRatio = "2:3" ->
         <<<<424, 632>>, <<848, 1264>>, <<1696, 2528>>, <<3392, 5056>>>>
    [] aspectRatio = "3:2" ->
         <<<<632, 424>>, <<1264, 848>>, <<2528, 1696>>, <<5056, 3392>>>>
    [] aspectRatio = "3:4" ->
         <<<<448, 600>>, <<896, 1200>>, <<1792, 2400>>, <<3584, 4800>>>>
    [] aspectRatio = "4:1" ->
         <<<<1024, 256>>, <<2048, 512>>, <<4096, 1024>>, <<8192, 2048>>>>
    [] aspectRatio = "4:3" ->
         <<<<600, 448>>, <<1200, 896>>, <<2400, 1792>>, <<4800, 3584>>>>
    [] aspectRatio = "4:5" ->
         <<<<464, 576>>, <<928, 1152>>, <<1856, 2304>>, <<3712, 4608>>>>
    [] aspectRatio = "5:4" ->
         <<<<576, 464>>, <<1152, 928>>, <<2304, 1856>>, <<4608, 3712>>>>
    [] aspectRatio = "8:1" ->
         <<<<1536, 192>>, <<3072, 384>>, <<6144, 768>>, <<12288, 1536>>>>
    [] aspectRatio = "9:16" ->
         <<<<384, 688>>, <<768, 1376>>, <<1536, 2752>>, <<3072, 5504>>>>
    [] aspectRatio = "16:9" ->
         <<<<688, 384>>, <<1376, 768>>, <<2752, 1536>>, <<5504, 3072>>>>
    [] aspectRatio = "21:9" ->
         <<<<792, 168>>, <<1584, 672>>, <<3168, 1344>>, <<6336, 2688>>>>
    [] OTHER -> <<>>

\* throw new Error('selectSourceResolutionSmart: No valid resolution found ...')
NoValidResolution == "Error: No valid resolution found"

\* the loop over the resolutions from the k-th on: the first whose size is at
\* least the requested one on both sides, and the throw after the loop
RECURSIVE FirstFitFrom(_, _, _, _)
FirstFitFrom(k, width, height, aspectRatio) ==
  IF k > Len(SourceResolutions) THEN NoValidResolution
  ELSE IF table(aspectRatio) = <<>>
    THEN FirstFitFrom(k + 1, width, height, aspectRatio)
  ELSE IF width <= table(aspectRatio)[k][1] /\ height <= table(aspectRatio)[k][2]
    THEN SourceResolutions[k]
  ELSE FirstFitFrom(k + 1, width, height, aspectRatio)

\* the function without the test against the 4K entry
selectSourceResolutionUncapped(width, height, aspectRatio) ==
  FirstFitFrom(1, width, height, aspectRatio)

selectSourceResolutionSmart(width, height, aspectRatio) ==
  LET rows == table(aspectRatio)
  IN  IF rows # <<>> /\ width <= rows[1][1] /\ height <= rows[1][2] THEN "0.5K"
      ELSE IF rows # <<>> /\ (width > rows[4][1] \/ height > rows[4][2]) THEN "4K"
      ELSE FirstFitFrom(1, width, height, aspectRatio)

\* how far around the sides of the table entries the requested sides range
SizeMargin == 1

\* the requested sides: 1, and the values within SizeMargin of side k of the
\* entries of the aspect ratio
SidesNear(aspectRatio, k) ==
  {1} \cup {table(aspectRatio)[r][k] + d : r \in 1..4, d \in (-SizeMargin)..SizeMargin}

SizeRequests ==
  UNION {[outputWidth : SidesNear(a, 1), outputHeight : SidesNear(a, 2), aspectRatio : {a}] :
           a \in AspectRatioKeys}

\* a call of selectSourceResolutionSmart on its own
ResolutionInit ==
  /\ args \in SizeRequests
  /\ epc = "called"
  /\ reply = <<>>
  /\ env = <<>>
  /\ geminiRequest = <<>>
  /\ rawImageBuffer = <<>>
  /\ files = <<>>
  /\ log = <<>>
  /\ inputBuffer = <<>>
  /\ options = <<>>
  /\ pc = "idle"
  /\ pixels = <<>>
  /\ debugInfo = NoDebugInfo
  /\ despillKind = "none"
  /\ resolvedMode = "none"
  /\ stageInput = <<>>
  /\ stages = <<>>
  /\ output = NoOutput

\* sourceResolution = selectSourceResolutionSmart(outputWidth, outputHeight, aspectRatio)
SelectSourceResolution ==
  /\ epc = "called"
  /\ reply' = selectSourceResolutionSmart(args.outputWidth, args.outputHeight,
                                          args.aspectRatio)
  /\ epc' = "returned"
  /\ UNCHANGED <<args, env, geminiRequest, rawImageBuffer, files, log>>
  /\ UNCHANGED pipeline

ResolutionNext == SelectSourceResolution

ResolutionSpec == ResolutionInit /\ [][ResolutionNext]_vars

\* the entry of resolution number r has room for the requested size
Fits(r) ==
  /\ args.outputWidth <= table(args.aspectRatio)[r][1]
  /\ args.outputHeight <= table(args.aspectRatio)[r][2]

C27_BeyondLargest ==
  /\ epc = "returned"
  /\ args = [outputWidth |-> 1, outputHeight |-> 4097, aspectRatio |-> "1:1"]
  /\ reply = "4K"

\* ------------------------------------------------------------------------
\* Alpha never rises
\* ------------------------------------------------------------------------

\* the alpha of pixel i before the step: that of the input, with alpha 255 for
\* an input without alpha channel, until the keyer has run
AlphaBefore(i) ==
  IF pc \in {"start", "selected"} THEN InputPixels[i][4] ELSE pixels[i][4]

\* the step of a stage 4.2 to 4.6 leaves the alpha of every pixel or makes it 0
AlphaKeptOrCleared ==
  (TransparencyEnabled
     /\ pc' \in {"keyed", "resolved", "cleared", "despilledA", "despilledB", "transparent"}) =>
    \A i \in DOMAIN pixels' : pixels'[i][4] \in {0, AlphaBefore(i)}

applyTransparency(rgba, width, height, hexColor, tolerance, outputWidth, outputHeight, fringeMode) ==
  LET target == parseHexColor(hexColor)
      kind == DespillKindOf(rgbToHsv(target[1], target[2], target[3]))
      mode == resolveFringeMode(fringeMode, outputWidth, outputHeight)
  IN  SpeckleCleanup(
        AlphaWeightedDespillPass(
          BoundaryDespillPass(
            Interleave(
              IF mode = "hd"
                THEN HdBoundaryClear(KeyingSweep(rgba, target, tolerance, kind),
                                     width, height)
                ELSE KeyingSweep(rgba, target, tolerance, kind)),
            width, height, kind, mode),
          kind, mode),
        width, height, target, tolerance, mode)

\* the encoder of the format
EncoderOf(format) ==
  IF format = "png" THEN "png" ELSE IF format = "webp" THEN "webp" ELSE "jpeg"

\* a wrapper that resizes and encodes the input as it is
postProcessWithDebugUnkeyed(image, opts) ==
  [buffer |-> [pixels |-> image.data, resized |-> TRUE, encoded |-> EncoderOf(opts.format)],
   debugInfo |-> NoDebugInfo]

\* the result {buffer, debugInfo} of the wrapper for a selection made
WithDebugSelected(image, opts, found) ==
  [buffer |->
     [pixels |-> applyTransparency(ensureAlpha(image), image.width, image.height,
                   found.selectedColor, opts.colorTolerance, opts.width, opts.height,
                   opts.fringeMode),
      resized |-> TRUE, encoded |-> EncoderOf(opts.format)],
   debugInfo |-> found]

\* postProcessWithDebug(inputBuffer, options): {buffer, debugInfo}
postProcessWithDebug(image, opts) ==
  IF opts.transparentColor.tag # "null" /\ opts.format \in {"png", "webp"}
    THEN WithDebugSelected(image, opts,
           DebugInfoOf(
             selectTransparentColor(ensureAlpha(image), image.width, image.height,
               normalizeTransparentColor(opts.transparentColor), opts.colorTolerance),
             normalizeTransparentColor(opts.transparentColor)))
    ELSE [buffer |-> [pixels |-> image.data, resized |-> TRUE,
                      encoded |-> EncoderOf(opts.format)],
          debugInfo |-> NoDebugInfo]

\* the wrapper's result has the image postProcess has produced and its
\* diagnostics: the selected color, the selection method, the requested color
\* and the colors of the corners top-left, top-right, bottom-left, bottom-right
SameAsPostProcess(withDebug) ==
  /\ withDebug.buffer =
       [pixels |-> pixels, resized |-> output.resized, encoded |-> output.encoded]
  /\ withDebug.debugInfo = debugInfo
  /\ TransparencyEnabled =>
       /\ withDebug.debugInfo.selectedColor =
            rgbToHex(KeyColor[1], KeyColor[2], KeyColor[3])
       /\ withDebug.debugInfo.selectionMethod \in {"histogram", "corner"}
       /\ withDebug.debugInfo.requestedColor =
            normalizeTransparentColor(options.transparentColor)
       /\ withDebug.debugInfo.cornerColors =
            [k \in 1..4 |-> rgbToHex(Corners[k][1], Corners[k][2], Corners[k][3])]

MissingPathCall ==
  /\ epc # "idle"
  /\ args.outputType \in {"file", "combine"}
  /\ args.outputPath = <<>>

\* C30: when outputType is file or combine and outputPath is missing,
\* generate_image returns success = false with the message 'outputPath is
\* required when outputType is "file" or "combine"', and it does so before any
\* reference image is loaded, before the Gemini API is called and before any
\* file is written: the call goes from its start to its return in one step,
\* with no request, no raw image, no post-processing, no warning or error
\* logged and no file written.
C30_MissingPathRejected ==
  MissingPathCall =>
    /\ epc \in {"called", "returned"}
    /\ geminiRequest = <<>>
    /\ rawImageBuffer = <<>>
    /\ pc = "idle"
    /\ log = <<>>
    /\ WrittenFiles = {}
    /\ Returned =>
         /\ Failed
         /\ ResultOf = [success |-> FALSE,
                        message |-> <<"outputPath", "is", "required", "when",
                                      "outputType", "is", "\"file\"", "or",
                                      "\"combine\"">>,
                        width |-> 0, height |-> 0, format |-> ""]
         /\ Len(reply.content) = 1

\* a call with outputType combine, a reference image, an API key and no
\* outputPath has returned the failure
C30_Witness ==
  /\ MissingPathCall /\ Returned /\ Failed
  /\ args.outputType = "combine"
  /\ args.referenceImages # <<>>
  /\ env.GEMINI_API_KEY = "key"
  /\ ResultOf.message = OutputPathRequired
====
